---- MODULE Spec2Model ----
(***************************************************************************)
(* PlexDownloader: the download lifecycle manager (DownloadService), the   *)
(* download record store (database/operations + schema) and the resumable  *)
(* transfer it drives (expo-file-system DownloadResumable).                *)
(*                                                                         *)
(* JavaScript runs one continuation at a time.  An async function runs     *)
(* synchronously up to its next `await`; the awaited native operation      *)
(* (SQLite statement, file-system call, pauseAsync) is issued at that      *)
(* moment and takes effect in issue order; the continuation after the      *)
(* await is a later step.  Every action below is one such continuation.    *)
(***************************************************************************)
EXTENDS Integers, FiniteSets, Sequences, Bags, TLC

\* ---- bounds of the model ------------------------------------------------
MaxCalls == 2
MaxFaults == 1
FileSize == 2
\* calls of the pause / resume scenario (SpecRoundTrip)
MaxRoundTrip == 4
\* calls and transfer errors of the retry scenario (SpecRetry)
MaxRetryCalls == 2
MaxRetryFaults == 4
\* calls of the start / delete scenario (SpecDelete)
MaxDeleteCalls == 2
\* entries of the downloads directory, sizes of its files and scans of the
\* orphan scan scenario (SpecOrphans)
MaxEntries == 3
MaxSize == 2
MaxScans == 1
\* interrupted downloads an earlier process left, and calls, of the
\* concurrency scenario (SpecLimit)
MaxQueued == 4
\* calls and clock ticks of the file name scenario (SpecFileName)
MaxNamed == 2
MaxClock == 2
\* calls of initializeDatabase and relaunches of the app (SpecMigrate)
MaxOpens == 3

\* ---- program constants ---------------------------------------------------
MAX_RETRY_ATTEMPTS == 3
RETRY_DELAY_BASE_MS == 2000
MAX_CONCURRENT_DOWNLOADS == 3
\* sanitize: substring(0, 100)
MaxNameLength == 100
CURRENT_DB_VERSION == 3

MediaKeys == {"m1"}
\* a media item that has a poster (media.thumb); "m1" has none
Poster == "m2"
thumb(mk) == mk = Poster
\* `${documentDirectory}thumbnails/${media.ratingKey}.jpg`: the files of the
\* thumbnails directory are the negative paths, those of the downloads
\* directory the positive ones; 0 is the null path
ThumbnailPath(mk) == IF mk = Poster THEN -2 ELSE -1
\* rows of the servers table: ServerListScreen saves a server before it can be
\* selected, and no operation of the program deletes one
Servers == {"s1"}
\* the server of a row whose server is no longer in the table
GoneServer == "s2"

PENDING == "pending"
DOWNLOADING == "downloading"
PAUSED == "paused"
COMPLETED == "completed"
FAILED == "failed"
DownloadStatus == {PENDING, DOWNLOADING, PAUSED, COMPLETED, FAILED}

NULL == "NULL"
AlreadyQueued == "This item is already in the queue."
ServerGone == "Server no longer available"
ServerDataMissing == "Server data not found in DB"
FailedToPause == "Failed to pause"
NetworkLost == "Network connection was lost. Tap Resume to continue."
ServerNotFound == "Server not found for download."
UniqueFailed == "UNIQUE constraint failed: downloads.media_rating_key, downloads.server_identifier"
StatusUndefined == "Download failed with server status: undefined"

\* error messages a transfer can end with
NetworkTimeout == "network timeout"
Timeout == "timeout"
EndOfStream == "unexpected end of stream"
PermissionDenied == "Permission denied"
TransferErrors == {NetworkTimeout, Timeout, EndOfStream, PermissionDenied}
\* the transient failures of the network: a timeout, a connection reset, a
\* connection refused, a loss of connectivity (as the fetch of React Native
\* words it, and in lower case)
ConnReset == "read ECONNRESET"
ConnRefused == "connect ECONNREFUSED"
NetworkFailed == "Network request failed"
TransientErrors ==
    {Timeout, ConnReset, ConnRefused, NetworkTimeout, NetworkFailed, "socket hang up",
     "Socket Hang Up"}
\* failures that no signature of a transient one matches
PermanentErrors == {PermissionDenied, "File not found", "Invalid format", "socket hangup"}

\* the characters of an error message
Characters ==
    [msg \in {NetworkTimeout, Timeout, EndOfStream, PermissionDenied, ConnReset, ConnRefused,
              NetworkFailed, StatusUndefined, "socket hang up", "Socket Hang Up",
              "File not found", "Invalid format", "socket hangup"} |->
       CASE msg = NetworkTimeout ->
                <<"n", "e", "t", "w", "o", "r", "k", " ", "t", "i", "m", "e", "o", "u",
                "t">>
         [] msg = Timeout ->
                <<"t", "i", "m", "e", "o", "u", "t">>
         [] msg = EndOfStream ->
                <<"u", "n", "e", "x", "p", "e", "c", "t", "e", "d", " ", "e", "n", "d", " ",
                 "o", "f", " ", "s", "t", "r", "e", "a", "m">>
         [] msg = PermissionDenied ->
                <<"P", "e", "r", "m", "i", "s", "s", "i", "o", "n", " ", "d", "e", "n",
                "i", "e", "d">>
         [] msg = ConnReset ->
                <<"r", "e", "a", "d", " ", "E", "C", "O", "N", "N", "R", "E", "S", "E",
                "T">>
         [] msg = ConnRefused ->
                <<"c", "o", "n", "n", "e", "c", "t", " ", "E", "C", "O", "N", "N", "R",
                "E", "F", "U", "S", "E", "D">>
         [] msg = NetworkFailed ->
                <<"N", "e", "t", "w", "o", "r", "k", " ", "r", "e", "q", "u", "e", "s",
                "t", " ", "f", "a", "i", "l", "e", "d">>
         [] msg = StatusUndefined ->
                <<"D", "o", "w", "n", "l", "o", "a", "d", " ", "f", "a", "i", "l", "e",
                "d", " ", "w", "i", "t", "h", " ", "s", "e", "r", "v", "e", "r", " ", "s",
                "t", "a", "t", "u", "s", ":", " ", "u", "n", "d", "e", "f", "i", "n", "e",
                "d">>
         [] msg = "socket hang up" ->
                <<"s", "o", "c", "k", "e", "t", " ", "h", "a", "n", "g", " ", "u", "p">>
         [] msg = "Socket Hang Up" ->
                <<"S", "o", "c", "k", "e", "t", " ", "H", "a", "n", "g", " ", "U", "p">>
         [] msg = "File not found" ->
                <<"F", "i", "l", "e", " ", "n", "o", "t", " ", "f", "o", "u", "n", "d">>
         [] msg = "Invalid format" ->
                <<"I", "n", "v", "a", "l", "i", "d", " ", "f", "o", "r", "m", "a", "t">>
         [] msg = "socket hangup" ->
                <<"s", "o", "c", "k", "e", "t", " ", "h", "a", "n", "g", "u", "p">>]

\* String.prototype.toLowerCase
SameCase(str) == str
toLowerCase(str) ==
    LET lowered ==
            [i \in DOMAIN str |->
               CASE str[i] = "A" -> "a" [] str[i] = "B" -> "b" [] str[i] = "C" -> "c"
                 [] str[i] = "D" -> "d" [] str[i] = "E" -> "e" [] str[i] = "F" -> "f"
                 [] str[i] = "G" -> "g" [] str[i] = "H" -> "h" [] str[i] = "I" -> "i"
                 [] str[i] = "J" -> "j" [] str[i] = "K" -> "k" [] str[i] = "L" -> "l"
                 [] str[i] = "M" -> "m" [] str[i] = "N" -> "n" [] str[i] = "O" -> "o"
                 [] str[i] = "P" -> "p" [] str[i] = "Q" -> "q" [] str[i] = "R" -> "r"
                 [] str[i] = "S" -> "s" [] str[i] = "T" -> "t" [] str[i] = "U" -> "u"
                 [] str[i] = "V" -> "v" [] str[i] = "W" -> "w" [] str[i] = "X" -> "x"
                 [] str[i] = "Y" -> "y" [] str[i] = "Z" -> "z" [] OTHER -> str[i]]
    IN SubSeq(lowered, 1, Len(str))

\* String.prototype.includes
includes(str, search) ==
    LET n == Len(search)
    IN \E k \in 0..(Len(str) - n) : \A i \in 1..n : str[k + i] = search[i]

VARIABLES
    appState,          \* App.tsx: "boot", "sweeping" (initialize running), "ready", "error"
    hasInitialized,    \* module-level flag of the service
    sweep,             \* initialize(): the rows still to handle
    downloads,         \* the downloads table: id -> row
    nextId,            \* AUTOINCREMENT sequence of the downloads table
    files,             \* the downloads directory: the paths that exist
    activeDownloads,   \* module-level Map: id -> ActiveDownload
    handles,           \* the ActiveDownload objects alive, each with its resumable
    tasks,             \* bag of calls of the service API that are suspended
    calls,             \* number of calls the application can still make
    faults,            \* number of transfers that can still end with an error
    event,             \* the call that settled in the last step, and how
    database,          \* the module's db handle and the schema of the SQLite file
    now,               \* Date.now(), in the scenario that names files by it
    disk,              \* what getInfoAsync tells of the entries of the downloads
                       \* directory: path -> directory or file, and size (kept
                       \* for the orphan scan only)
    pausedAt           \* history: id -> the checkpoint pauseDownload last stored,
                       \* the row's downloaded_bytes at that moment, and whether
                       \* a resumeDownload has since built a transfer from it

vars == <<appState, hasInitialized, sweep, downloads, nextId, files,
          activeDownloads, handles, tasks, calls, faults, event, database, now, disk, pausedAt>>

Ids == 1..(nextId - 1)
Hs == DOMAIN handles

\* ---- resume_data column ---------------------------------------------------
\* null, an unparseable string, or JSON.stringify(savable()) whose resumeData
\* is the transfer offset (-1: resumeData undefined, a transfer never paused)
NoResume == [kind |-> "null", off |-> -1]
Corrupt == [kind |-> "corrupt", off |-> -1]
PauseState(off) == [kind |-> "state", off |-> off]

\* ---- the downloads table ----------------------------------------------------
Pairs(tbl) == {<<tbl[i].media_rating_key, tbl[i].server_identifier>> : i \in DOMAIN tbl}

\* the table without its UNIQUE constraint
NoUniqueConstraint(mk, sid) == FALSE

\* UNIQUE(media_rating_key, server_identifier)
UniqueViolation(mk, sid) == <<mk, sid>> \in Pairs(downloads)

NewRow(mk, sid, path) ==
    [media_rating_key |-> mk, server_identifier |-> sid, local_file_path |-> path,
     download_status |-> PENDING, file_size |-> -1, downloaded_bytes |-> 0,
     error_message |-> NULL, resume_data |-> NoResume, local_thumbnail_path |-> 0,
     updated_at |-> 0]

\* ---- the schema -------------------------------------------------------------------
\* the columns of the downloads table the model keeps: those of the first
\* version of the schema, and all of them
BaseColumns ==
    {"media_rating_key", "server_identifier", "local_file_path", "download_status",
     "file_size", "downloaded_bytes", "error_message"}
CurrentColumns == BaseColumns \cup {"local_thumbnail_path", "resume_data"}

\* db: the module's handle is set; tables, columns (of downloads) and the rows
\* of db_version: what the SQLite file holds
Migrated ==
    [db |-> TRUE, tables |-> {"db_version", "downloads", "servers", "app_state"},
     columns |-> CurrentColumns, db_version |-> <<CURRENT_DB_VERSION>>]

Put(tbl, id, row) == [i \in DOMAIN tbl \cup {id} |-> IF i = id THEN row ELSE tbl[i]]
Remove(f, k) == [i \in DOMAIN f \ {k} |-> f[i]]

\* a lookup that finds every server
AnyServer(sid) == TRUE

\* SELECT * FROM servers WHERE identifier = ?
getServer(sid) == sid \in Servers

getDownloadByMediaKey(mk, sid) ==
    LET hit == {i \in DOMAIN downloads :
                  /\ downloads[i].media_rating_key = mk
                  /\ downloads[i].server_identifier = sid}
    IN IF hit = {} THEN 0 ELSE CHOOSE i \in hit : \A j \in hit : i <= j

updateDownloadStatus(tbl, id, status, msg) ==
    IF id \in DOMAIN tbl
    THEN [tbl EXCEPT ![id].download_status = status, ![id].error_message = msg,
                     ![id].updated_at = now]
    ELSE tbl

updateDownloadProgress(tbl, id, bytes, size) ==
    IF id \in DOMAIN tbl
    THEN [tbl EXCEPT ![id].downloaded_bytes = bytes, ![id].file_size = size,
                     ![id].updated_at = now]
    ELSE tbl

updateDownloadResumeData(tbl, id, rd) ==
    IF id \in DOMAIN tbl THEN [tbl EXCEPT ![id].resume_data = rd] ELSE tbl

updateDownloadThumbnail(tbl, id, path) ==
    IF id \in DOMAIN tbl THEN [tbl EXCEPT ![id].local_thumbnail_path = path] ELSE tbl

\* ---- initial store: what an earlier process can have left behind -----------
Leftover(mk, sid, path) ==
    LET r == NewRow(mk, sid, path)
    IN { r,
         [r EXCEPT !.download_status = DOWNLOADING, !.downloaded_bytes = 1,
                   !.file_size = FileSize, !.resume_data = PauseState(-1)],
         [r EXCEPT !.download_status = PAUSED, !.downloaded_bytes = 1,
                   !.file_size = FileSize, !.resume_data = PauseState(1)],
         [r EXCEPT !.download_status = PAUSED, !.downloaded_bytes = 1,
                   !.file_size = FileSize, !.resume_data = Corrupt],
         [r EXCEPT !.download_status = COMPLETED, !.downloaded_bytes = FileSize,
                   !.file_size = FileSize],
         [r EXCEPT !.download_status = FAILED, !.downloaded_bytes = 1,
                   !.file_size = FileSize, !.error_message = PermissionDenied] }

InitialStores ==
    {<<>>}
    \cup { (1 :> r) : r \in Leftover("m1", "s1", 1) }
    \cup { (1 :> r) : r \in {x \in Leftover("m1", GoneServer, 1) :
                              x.download_status \in {DOWNLOADING, PAUSED}
                              /\ x.resume_data # Corrupt} }
    \cup { (1 :> r1) @@ (2 :> r2) :
             r1 \in {x \in Leftover("m1", GoneServer, 1) : x.download_status = DOWNLOADING},
             r2 \in {x \in Leftover("m1", "s1", 2) : x.download_status = PENDING} }

\* the file a row's transfer has left on disk (a pending row has none yet)
InitialFiles(tbl) ==
    {tbl[i].local_file_path : i \in {j \in DOMAIN tbl : tbl[j].download_status # PENDING}}

\* orphans: the list findOrphanedFiles resolved with
NoEvent == [op |-> NULL, id |-> 0, err |-> NULL, orphans |-> {}]
Settled(op, id, err) == [op |-> op, id |-> id, err |-> err, orphans |-> {}]

Init ==
    /\ appState = "boot"
    /\ hasInitialized = FALSE
    /\ sweep = <<>>
    /\ downloads \in InitialStores
    /\ nextId = Cardinality(DOMAIN downloads) + 1
    /\ files = InitialFiles(downloads)
    /\ activeDownloads = <<>>
    /\ handles = <<>>
    /\ tasks = EmptyBag
    /\ calls = MaxCalls
    /\ faults = MaxFaults
    /\ event = NoEvent
    /\ database = Migrated
    /\ now = 0
    /\ disk = <<>>
    /\ pausedAt = <<>>

\* ---- initialize(): the reconciliation routine ------------------------------
RECURSIVE Descending(_)
Descending(S) ==
    IF S = {} THEN <<>>
    ELSE LET m == CHOOSE x \in S : \A y \in S : y <= x
         IN <<m>> \o Descending(S \ {m})

\* a SELECT without its WHERE clause
getEveryDownload(statuses) == Descending(DOMAIN downloads)

\* SELECT ... WHERE download_status IN (...) ORDER BY created_at DESC
getDownloadsByStatus(statuses) ==
    Descending({i \in DOMAIN downloads : downloads[i].download_status \in statuses})

\* App.tsx awaits initialize() before it renders any screen, so no other call
\* of the service runs while the sweep does
Initialize ==
    /\ appState = "boot"
    /\ appState' = "sweeping"
    /\ IF hasInitialized
       THEN UNCHANGED <<hasInitialized, sweep>>
       ELSE /\ hasInitialized' = TRUE
            /\ sweep' = getDownloadsByStatus({DOWNLOADING, PENDING})
    /\ event' = NoEvent
    /\ UNCHANGED <<downloads, nextId, files, activeDownloads, handles, tasks, calls,
                   faults, database, now, disk, pausedAt>>

\* a sweep that pauses every interrupted download
SweepStatusAlwaysPaused(sid) == PAUSED

SweepStatus(sid) == IF getServer(sid) THEN PAUSED ELSE FAILED
SweepMessage(sid) == IF getServer(sid) THEN NULL ELSE ServerGone

\* a sweep that resumes the interrupted download it visits
InitSweepResuming ==
    /\ appState = "sweeping"
    /\ sweep # <<>>
    /\ LET id == Head(sweep)
           h == Cardinality(DOMAIN handles) + 1
       IN /\ downloads' = updateDownloadStatus(downloads, id, DOWNLOADING, NULL)
          /\ activeDownloads' = Put(activeDownloads, id, h)
          /\ handles' = Put(handles, h,
                            [downloadId |-> id, fileUri |-> downloads[id].local_file_path,
                             resumeData |-> -1, pc |-> "attached", retryCount |-> 0,
                             written |-> 0, info |-> -1, delay |-> 0])
    /\ sweep' = Tail(sweep)
    /\ event' = NoEvent
    /\ UNCHANGED <<appState, hasInitialized, nextId, files, tasks, calls, faults,
                   database, now,
                   disk, pausedAt>>

InitSweep ==
    /\ appState = "sweeping"
    /\ sweep # <<>>
    /\ LET id == Head(sweep)
           sid == downloads[id].server_identifier
       IN downloads' = updateDownloadStatus(downloads, id, SweepStatus(sid), SweepMessage(sid))
    /\ sweep' = Tail(sweep)
    /\ event' = NoEvent
    /\ UNCHANGED <<appState, hasInitialized, nextId, files, activeDownloads, handles,
                   tasks, calls, faults, database, now, disk, pausedAt>>

InitReturn ==
    /\ appState = "sweeping"
    /\ sweep = <<>>
    /\ appState' = "ready"
    /\ event' = Settled("initialize", 0, NULL)
    /\ UNCHANGED <<hasInitialized, sweep, downloads, nextId, files, activeDownloads,
                   handles, tasks, calls, faults, database, now, disk, pausedAt>>

\* an awaited statement of the sweep (getServer, or the UPDATE of the row at the
\* head of the list) throws: initialize() rejects, its list is lost, and
\* initializeApp shows the error screen
InitializeFails ==
    /\ appState = "sweeping"
    /\ sweep # <<>>
    /\ faults > 0
    /\ faults' = faults - 1
    /\ appState' = "error"
    /\ sweep' = <<>>
    /\ event' = Settled("initialize", 0, "database is locked")
    /\ UNCHANGED <<hasInitialized, downloads, nextId, files, activeDownloads, handles,
                   tasks, calls, database, now, disk, pausedAt>>

\* the Retry button of the error screen: initializeApp runs again
RetryInitializeApp ==
    /\ appState = "error"
    /\ appState' = "boot"
    /\ event' = NoEvent
    /\ UNCHANGED <<hasInitialized, sweep, downloads, nextId, files, activeDownloads,
                   handles, tasks, calls, faults, database, now, disk, pausedAt>>

\* ---- suspended calls --------------------------------------------------------
\* op: the API function; pc: the await it is suspended at; id: the download it
\* works on (0: none); mk, sid: startDownload's parameters; row: the row (or
\* NoRow) an awaited SELECT returned; res: what the awaited pauseAsync settled
\* with
NoRow == [exists |-> FALSE, download_status |-> NULL, server_identifier |-> NULL,
          local_file_path |-> 0, resume_data |-> NoResume, local_thumbnail_path |-> 0]
getDownload(id) ==
    IF id \in DOMAIN downloads
    THEN [exists |-> TRUE,
          download_status |-> downloads[id].download_status,
          server_identifier |-> downloads[id].server_identifier,
          local_file_path |-> downloads[id].local_file_path,
          resume_data |-> downloads[id].resume_data,
          local_thumbnail_path |-> downloads[id].local_thumbnail_path]
    ELSE NoRow

\* the columns of a selected row that its reader uses: startDownload reads
\* the status, deleteDownload the two paths
Columns(row, status) ==
    IF ~row.exists THEN NoRow
    ELSE [NoRow EXCEPT !.exists = TRUE,
                       !.download_status = IF status THEN row.download_status ELSE NULL,
                       !.local_file_path = IF status THEN 0 ELSE row.local_file_path,
                       !.local_thumbnail_path =
                           IF status THEN 0 ELSE row.local_thumbnail_path]

Task(op, pc, id) ==
    [op |-> op, pc |-> pc, id |-> id, mk |-> NULL, sid |-> NULL, row |-> NoRow,
     res |-> NoResume]

Spawn(t) == tasks (+) SetToBag({t})
Step(t, u) == (tasks (-) SetToBag({t})) (+) SetToBag({u})
Finish(t) == tasks (-) SetToBag({t})
Suspended == BagToSet(tasks)

\* the application makes a call: a button of the UI, once the app is ready
Call ==
    /\ appState = "ready"
    /\ calls > 0
    /\ calls' = calls - 1

\* ---- the resumable transfer ---------------------------------------------------
\* downloadId, fileUri: what the handle was built for; resumeData: the offset it
\* was constructed with or was last paused at (-1: none); pc: where its
\* executeDownload run stands; retryCount; written: totalBytesWritten of the
\* running transfer; info: the file size getInfoAsync returned (-1: no file);
\* delay: the milliseconds of the retry timer that is pending (0: none)
NewHandle(id, path, off) ==
    [downloadId |-> id, fileUri |-> path, resumeData |-> off, pc |-> "attached",
     retryCount |-> 0, written |-> 0, info |-> -1, delay |-> 0]

IsAttached(id) == id \in DOMAIN activeDownloads
getActiveDownloadsCount == Cardinality(DOMAIN activeDownloads)
isDownloadActive(id) == id \in DOMAIN activeDownloads

\* an ActiveDownload that no run and no map entry refers to is garbage
Live(hs, map) ==
    {h \in DOMAIN hs : hs[h].pc # "finished" \/ \E i \in DOMAIN map : map[i] = h}
Commit(hs, map) ==
    /\ activeDownloads' = map
    /\ handles' = [h \in Live(hs, map) |-> hs[h]]

NewHandleId == CHOOSE h \in 1..(Cardinality(DOMAIN handles) + 1) : h \notin DOMAIN handles

\* savable(): the state a resume needs; resumeData is what the constructor or
\* the last pauseAsync left in the object
savable(h) == PauseState(handles[h].resumeData)

\* pauseAsync(): with a transfer running it cancels it (downloadAsync settles
\* with no result) and returns the state to resume from; with no transfer
\* running (not started yet, ended, or waiting for a retry) the native module
\* has no task for the handle and the call throws
Threw == [kind |-> "throw", off |-> -1]
PauseOutcomes(h) ==
    IF handles[h].pc = "running"
    THEN {PauseState(handles[h].written)}
    ELSE {Threw}

pauseAsync(h, outcome) ==
    IF outcome.kind = "state"
    THEN [handles EXCEPT ![h].pc = "cancelled", ![h].resumeData = outcome.off,
                         ![h].written = 0]
    ELSE handles

startup == <<appState, hasInitialized, sweep, faults, database, now, disk>>
boot == <<startup, pausedAt>>

\* ---- history of the checkpoints pauseDownload stored -------------------------
Paused(id, rd) ==
    IF id \in DOMAIN downloads
    THEN Put(pausedAt, id, [off |-> rd.off, bytes |-> downloads[id].downloaded_bytes,
                            resumed |-> FALSE])
    ELSE pausedAt
Resumed(id, rd) ==
    IF id \in DOMAIN pausedAt /\ rd = PauseState(pausedAt[id].off)
    THEN [pausedAt EXCEPT ![id].resumed = TRUE]
    ELSE pausedAt
Forgotten(id) == IF id \in DOMAIN pausedAt THEN Remove(pausedAt, id) ELSE pausedAt

\* ---- startDownload ------------------------------------------------------------
StartDownload(mk, sid) ==
    /\ Call
    /\ LET existing == getDownloadByMediaKey(mk, sid)
       IN tasks' = Spawn([Task("startDownload", "lookup", existing) EXCEPT
                            !.mk = mk, !.sid = sid,
                            !.row = Columns(getDownload(existing), TRUE)])
    /\ event' = NoEvent
    /\ UNCHANGED <<boot, downloads, nextId, files, activeDownloads, handles>>

\* a cancel that leaves the map as it is
StillAttached(id) == activeDownloads

\* activeDownloads.delete(downloadId)
Detached(id) == Remove(activeDownloads, id)

\* cancelAndDeleteDownload up to its first await: detach, then pause the
\* transfer if there was one, else go on to deleteDownload's SELECT
CancelSync(t, id) ==
    IF IsAttached(id)
    THEN \E o \in PauseOutcomes(activeDownloads[id]) :
            /\ Commit(pauseAsync(activeDownloads[id], o), Detached(id))
            /\ tasks' = Step(t, [t EXCEPT !.pc = "cancel_paused", !.id = id])
    ELSE /\ UNCHANGED <<activeDownloads, handles>>
         /\ tasks' = Step(t, [t EXCEPT !.pc = "delete_selected", !.id = id,
                                        !.row = Columns(getDownload(id), FALSE)])

\* ---- generateFileName ------------------------------------------------------------
\* the movies whose titles the model knows, by rating key; a string is the
\* sequence of its characters
Catalogue ==
    [k \in {"t1", "t2", "t3", "t4", "t5"} |->
       CASE k = "t1" -> <<"T", "e", "s", "t", " ", "M", "o", "v", "i", "e">>
         [] k = "t2" -> <<"T", "e", "s", "t", ":", " ", "M", "o", "v", "i", "e", "!">>
         [] k = "t3" -> <<"T", "e", "s", "t", "_", "_", "_", "M", "o", "v", "i", "e">>
         [] k = "t4" -> [i \in 1..150 |-> "A"]
         [] k = "t5" -> [i \in 1..99 |-> "a"] \o <<" ", "2">>]

\* str.replace(/[^a-zA-Z0-9.\-_]/g, '_').replace(/_{2,}/g, '_')
\*    .replace(/^_|_$/g, '').toLowerCase().substring(0, 100)
sanitize(str) ==
    LET lower == {"a", "e", "i", "m", "o", "s", "t", "v"}
        upper == {"A", "M", "T"}
        allowed == lower \cup upper \cup {"0", "1", "2", ".", "-", "_"}
        replaced == [i \in 1..Len(str) |-> IF str[i] \in allowed THEN str[i] ELSE "_"]
        \* of a run of underscores the first one stays
        kept == {i \in 1..Len(str) :
                   ~(i > 1 /\ replaced[i] = "_" /\ replaced[i - 1] = "_")}
        collapsed == [k \in 1..Cardinality(kept) |->
                        replaced[CHOOSE i \in kept :
                                   Cardinality({j \in kept : j <= i}) = k]]
        headless == IF collapsed # <<>> /\ Head(collapsed) = "_"
                    THEN Tail(collapsed) ELSE collapsed
        trimmed == IF headless # <<>> /\ headless[Len(headless)] = "_"
                   THEN SubSeq(headless, 1, Len(headless) - 1) ELSE headless
        lowered == toLowerCase(trimmed)
    IN SubSeq(lowered, 1, IF Len(lowered) < MaxNameLength THEN Len(lowered)
                          ELSE MaxNameLength)

\* `${sanitize(media.title)}_${timestamp}.mp4` of a movie
generateFileName(title, timestamp) ==
    sanitize(title) \o <<"_", ToString(timestamp), ".", "m", "p", "4">>

\* localPath: the generated name for a movie of the catalogue; for the items
\* whose titles the model does not know, the position of the insert in the
\* table's sequence stands for the name
localPath(mk) ==
    IF mk \in DOMAIN Catalogue THEN generateFileName(Catalogue[mk], now) ELSE nextId

\* generateFileName, ensureDirectoryExists and addDownload's INSERT, then the
\* two calls startDownload does not await: downloadThumbnail (which returns at
\* once for a media item without a poster) and startNewDownload.
addDownload(t) ==
    IF UniqueViolation(t.mk, t.sid)
    THEN /\ tasks' = Finish(t)
         /\ event' = Settled("startDownload", 0, UniqueFailed)
         /\ UNCHANGED <<downloads, nextId>>
    ELSE /\ downloads' = Put(downloads, nextId,
                             [NewRow(t.mk, t.sid, localPath(t.mk)) EXCEPT !.updated_at = now])
         /\ nextId' = nextId + 1
         /\ LET run == Step(t, [Task("startNewDownload", "server", nextId) EXCEPT
                                   !.mk = t.mk, !.sid = t.sid])
            IN tasks' = IF thumb(t.mk)
                        THEN run (+) SetToBag({[Task("downloadThumbnail", "fetch", nextId)
                                                  EXCEPT !.mk = t.mk]})
                        ELSE run
         /\ event' = Settled("startDownload", nextId, NULL)

\* a start that also replaces a paused record
IsReplaceableOrPaused(row) == row.download_status \in {FAILED, PAUSED}

IsReplaceable(row) == row.download_status = FAILED

StartDecide(t) ==
    /\ t.op = "startDownload" /\ t.pc = "lookup"
    /\ IF t.row.exists
       THEN IF IsReplaceable(t.row)
            THEN /\ CancelSync(t, t.id)
                 /\ event' = NoEvent
                 /\ UNCHANGED <<downloads, nextId>>
            ELSE /\ tasks' = Finish(t)
                 /\ event' = Settled("startDownload", t.id, AlreadyQueued)
                 /\ UNCHANGED <<downloads, nextId, activeDownloads, handles>>
       ELSE /\ addDownload(t)
            /\ UNCHANGED <<activeDownloads, handles>>
    /\ UNCHANGED <<boot, files, calls>>

StartInsert(t) ==
    /\ t.op = "startDownload" /\ t.pc = "deleted"
    /\ addDownload(t)
    /\ UNCHANGED <<boot, files, activeDownloads, handles, calls>>

\* ---- cancelAndDeleteDownload / deleteDownload ------------------------------------
CancelAndDeleteDownload(id) ==
    /\ Call
    /\ CancelSync(Task("cancelAndDeleteDownload", "call", id), id)
    /\ event' = NoEvent
    /\ UNCHANGED <<boot, downloads, nextId, files>>

\* after `await pauseAsync()` (its error is swallowed): deleteDownload's SELECT
CancelPaused(t) ==
    /\ t.pc = "cancel_paused"
    /\ tasks' = Step(t, [t EXCEPT !.pc = "delete_selected",
                                   !.row = Columns(getDownload(t.id), FALSE)])
    /\ event' = NoEvent
    /\ UNCHANGED <<boot, downloads, nextId, files, activeDownloads, handles, calls>>

\* a deleteDownload that removes the file and leaves the row
DeleteRowKept(t) ==
    /\ UNCHANGED <<downloads, pausedAt>>
    /\ IF t.op = "startDownload"
       THEN /\ tasks' = Step(t, [t EXCEPT !.pc = "deleted"])
            /\ event' = NoEvent
       ELSE /\ tasks' = Finish(t)
            /\ event' = Settled("cancelAndDeleteDownload", t.id, NULL)

\* DELETE FROM downloads WHERE id = ?
DeleteRow(t) ==
    /\ downloads' = IF t.id \in DOMAIN downloads THEN Remove(downloads, t.id) ELSE downloads
    /\ pausedAt' = Forgotten(t.id)
    /\ IF t.op = "startDownload"
       THEN /\ tasks' = Step(t, [t EXCEPT !.pc = "deleted"])
            /\ event' = NoEvent
       ELSE /\ tasks' = Finish(t)
            /\ event' = Settled("cancelAndDeleteDownload", t.id, NULL)

\* FileSystem.deleteAsync removes the file, or throws and leaves it (the error
\* is caught and logged, and the thumbnail, deleted in the same try block after
\* the file, is skipped)
DeleteFile(t) ==
    /\ t.pc = "delete_selected"
    /\ IF t.row.exists
       THEN /\ \/ /\ files' = files \ {t.row.local_file_path}
                  /\ tasks' = Step(t, [t EXCEPT !.pc = IF t.row.local_thumbnail_path # 0
                                                       THEN "thumbnail"
                                                       ELSE "file_deleted"])
               \/ /\ t.row.local_file_path \in files
                  /\ files' = files
                  /\ tasks' = Step(t, [t EXCEPT !.pc = "file_deleted", !.res = Threw])
            /\ event' = NoEvent
            /\ UNCHANGED <<downloads, pausedAt>>
       ELSE /\ DeleteRow(t)
            /\ UNCHANGED files
    /\ UNCHANGED <<startup, nextId, activeDownloads, handles, calls>>

\* a deleteDownload that lets the error of deleteAsync out
DeleteAborted(t) ==
    /\ t.pc = "file_deleted"
    /\ IF t.res = Threw
       THEN /\ tasks' = Finish(t)
            /\ event' = Settled(t.op, t.id, PermissionDenied)
            /\ UNCHANGED <<downloads, pausedAt>>
       ELSE DeleteRow(t)
    /\ UNCHANGED <<startup, nextId, files, activeDownloads, handles, calls>>

DeleteRecord(t) ==
    /\ t.pc = "file_deleted"
    /\ DeleteRow(t)
    /\ UNCHANGED <<startup, nextId, files, activeDownloads, handles, calls>>

\* the second deleteAsync of deleteDownload, for a row with a thumbnail path
DeleteThumbnail(t) ==
    /\ t.pc = "thumbnail"
    /\ \/ /\ files' = files \ {t.row.local_thumbnail_path}
          /\ tasks' = Step(t, [t EXCEPT !.pc = "file_deleted"])
       \/ /\ t.row.local_thumbnail_path \in files
          /\ files' = files
          /\ tasks' = Step(t, [t EXCEPT !.pc = "file_deleted", !.res = Threw])
    /\ event' = NoEvent
    /\ UNCHANGED <<boot, downloads, nextId, activeDownloads, handles, calls>>

\* ---- downloadThumbnail -----------------------------------------------------------
\* FileSystem.downloadAsync(thumbnailUrl, localPath) writes the poster, or
\* throws (the error is caught and logged)
ThumbnailFetch(t) ==
    /\ t.op = "downloadThumbnail" /\ t.pc = "fetch"
    /\ \/ /\ files' = files \cup {ThumbnailPath(t.mk)}
          /\ tasks' = Step(t, [t EXCEPT !.pc = "fetched"])
       \/ /\ files' = files
          /\ tasks' = Finish(t)
    /\ event' = NoEvent
    /\ UNCHANGED <<boot, downloads, nextId, activeDownloads, handles, calls>>

ThumbnailSaved(t) ==
    /\ t.op = "downloadThumbnail" /\ t.pc = "fetched"
    /\ downloads' = updateDownloadThumbnail(downloads, t.id, ThumbnailPath(t.mk))
    /\ tasks' = Finish(t)
    /\ event' = NoEvent
    /\ UNCHANGED <<boot, nextId, files, activeDownloads, handles, calls>>

\* ---- startNewDownload -----------------------------------------------------------
\* attach a new ActiveDownload and run executeDownload up to its first await,
\* the DOWNLOADING write
Attach(id, path, off) ==
    /\ Commit(Put(handles, NewHandleId, NewHandle(id, path, off)),
              Put(activeDownloads, id, NewHandleId))
    /\ downloads' = updateDownloadStatus(downloads, id, DOWNLOADING, NULL)

StartNewDownload(t) ==
    /\ t.op = "startNewDownload" /\ t.pc = "server"
    /\ IF getServer(t.sid)
       THEN Attach(t.id, t.id, -1)
       ELSE /\ downloads' = updateDownloadStatus(downloads, t.id, FAILED, ServerDataMissing)
            /\ UNCHANGED <<activeDownloads, handles>>
    /\ tasks' = Finish(t)
    /\ event' = NoEvent
    /\ UNCHANGED <<boot, nextId, files, calls>>

\* ---- pauseDownload -----------------------------------------------------------
PauseDownload(id) ==
    /\ Call
    /\ IF ~IsAttached(id)
       THEN /\ downloads' = updateDownloadStatus(downloads, id, PAUSED, NULL)
            /\ event' = Settled("pauseDownload", id, NULL)
            /\ UNCHANGED <<activeDownloads, handles, tasks>>
       ELSE \E o \in PauseOutcomes(activeDownloads[id]) :
               /\ Commit(pauseAsync(activeDownloads[id], o), activeDownloads)
               /\ tasks' = Spawn([Task("pauseDownload", "pausing", id) EXCEPT !.res = o])
               /\ event' = NoEvent
               /\ UNCHANGED downloads
    /\ UNCHANGED <<boot, nextId, files>>

\* after `await pauseAsync()`: detach and store the state, or the catch block
PausePaused(t) ==
    /\ t.op = "pauseDownload" /\ t.pc = "pausing"
    /\ IF t.res.kind = "state"
       THEN /\ Commit(handles, Remove(activeDownloads, t.id))
            /\ downloads' = updateDownloadResumeData(downloads, t.id, t.res)
            /\ pausedAt' = Paused(t.id, t.res)
            /\ tasks' = Step(t, [t EXCEPT !.pc = "saved"])
            /\ event' = NoEvent
       ELSE /\ downloads' = updateDownloadStatus(downloads, t.id, FAILED, FailedToPause)
            /\ tasks' = Finish(t)
            /\ event' = Settled("pauseDownload", t.id, NULL)
            /\ UNCHANGED <<activeDownloads, handles, pausedAt>>
    /\ UNCHANGED <<startup, nextId, files, calls>>

PauseSaved(t) ==
    /\ t.op = "pauseDownload" /\ t.pc = "saved"
    /\ downloads' = updateDownloadStatus(downloads, t.id, PAUSED, NULL)
    /\ tasks' = Finish(t)
    /\ event' = Settled("pauseDownload", t.id, NULL)
    /\ UNCHANGED <<boot, nextId, files, activeDownloads, handles, calls>>

\* ---- resumeDownload ----------------------------------------------------------
IsAlreadyActive(id) == IsAttached(id)

ResumeDownload(id) ==
    /\ Call
    /\ IF IsAlreadyActive(id)
       THEN /\ event' = Settled("resumeDownload", id, NULL)
            /\ UNCHANGED tasks
       ELSE /\ tasks' = Spawn([Task("resumeDownload", "selected", id) EXCEPT
                                 !.row = getDownload(id)])
            /\ event' = NoEvent
    /\ UNCHANGED <<boot, downloads, nextId, files, activeDownloads, handles>>

\* a resume without the try / catch around JSON.parse and the constructor: the
\* stored string is taken for a checkpoint whatever it holds
ResumeOffsetUnchecked(rd) ==
    IF rd.kind = "null" THEN -1 ELSE IF rd.kind = "state" THEN rd.off ELSE 0

\* the resumeData the new DownloadResumable is built with: JSON.parse of an
\* unparseable string throws and the catch block builds a fresh transfer
ResumeOffset(rd) ==
    IF rd.kind = "state" THEN rd.off ELSE -1

\* a resume that takes every row that exists
IsPresent(row) == row.exists

IsResumable(row) == row.exists /\ row.download_status # COMPLETED

ResumeSelected(t) ==
    /\ t.op = "resumeDownload" /\ t.pc = "selected"
    /\ IF ~IsResumable(t.row)
       THEN /\ event' = Settled("resumeDownload", t.id, NULL)
            /\ UNCHANGED <<downloads, activeDownloads, handles, pausedAt>>
       ELSE IF ~getServer(t.row.server_identifier)
            THEN /\ downloads' = updateDownloadStatus(downloads, t.id, FAILED, ServerGone)
                 /\ event' = Settled("resumeDownload", t.id, ServerNotFound)
                 /\ UNCHANGED <<activeDownloads, handles, pausedAt>>
            ELSE /\ Attach(t.id, t.row.local_file_path, ResumeOffset(t.row.resume_data))
                 /\ pausedAt' = Resumed(t.id, t.row.resume_data)
                 /\ event' = Settled("resumeDownload", t.id, NULL)
    /\ tasks' = Finish(t)
    /\ UNCHANGED <<startup, nextId, files, calls>>

\* ---- executeDownload ---------------------------------------------------------
Handle(h, f) == [handles EXCEPT ![h] = f]
\* the run of handle h ends
Finished(h) == Handle(h, [handles[h] EXCEPT !.pc = "finished", !.written = 0,
                                             !.info = -1, !.retryCount = 0,
                                             !.delay = 0])

\* the offset a transfer built with resumeData off starts to count from
StartOffset(off) == IF off < 0 THEN 0 ELSE off

\* after the status write: resumable.downloadAsync() opens the file (from byte
\* 0 without resumeData, to append with it) and the transfer runs
ExecuteDownload(h) ==
    /\ handles[h].pc = "attached"
    /\ LET off == handles[h].resumeData
           path == handles[h].fileUri
       IN /\ handles' = Handle(h, [handles[h] EXCEPT !.pc = "running",
                                                     !.written = StartOffset(off)])
          /\ files' = files \cup {path}
    /\ event' = NoEvent
    /\ UNCHANGED <<boot, downloads, nextId, activeDownloads, tasks, calls>>

\* the progress callback of createProgressCallback: the first call of a handle
\* passes both time throttles (its last times start at 0), a later call passes
\* either, both or none
FirstCallback(h) == handles[h].written = StartOffset(handles[h].resumeData)

ProgressCallback(tbl, h, total, writeProgress, saveResume) ==
    LET id == handles[h].downloadId
        d1 == IF writeProgress
              THEN updateDownloadProgress(tbl, id, total, FileSize)
              ELSE tbl
    IN IF IsAttached(id) /\ saveResume
       THEN updateDownloadResumeData(d1, id, savable(activeDownloads[id]))
       ELSE d1

Progress(h) ==
    /\ handles[h].pc = "running"
    /\ handles[h].written < FileSize
    /\ LET total == handles[h].written + 1
       IN /\ handles' = Handle(h, [handles[h] EXCEPT !.written = total])
          /\ \E w, s \in BOOLEAN :
                /\ FirstCallback(h) => (w /\ s)
                /\ downloads' = ProgressCallback(downloads, h, total, w, s)
    /\ event' = NoEvent
    /\ UNCHANGED <<boot, nextId, files, activeDownloads, tasks, calls>>

\* downloadAsync settles with status 200: FileSystem.getInfoAsync(result.uri);
\* the file of a transfer that succeeded has the size of the media file
getInfoAsync(path) == IF path \in files THEN FileSize ELSE -1

TransferSucceeds(h) ==
    /\ handles[h].pc = "running"
    /\ handles[h].written = FileSize
    /\ handles' = Handle(h, [handles[h] EXCEPT !.pc = "info", !.written = 0,
                                !.info = getInfoAsync(handles[h].fileUri)])
    /\ event' = NoEvent
    /\ UNCHANGED <<boot, downloads, nextId, files, activeDownloads, tasks, calls>>

\* what the success path does to the map when it has written COMPLETED: nothing
CompletedMap(id) == activeDownloads

\* after getInfoAsync: stamp the final progress, or, with no file, go straight
\* to the COMPLETED write
ExecStamp(h) ==
    /\ handles[h].pc = "info"
    /\ LET id == handles[h].downloadId
           size == handles[h].info
       IN IF size >= 0
          THEN /\ downloads' = updateDownloadProgress(downloads, id, size, size)
               /\ handles' = Handle(h, [handles[h] EXCEPT !.pc = "stamped", !.info = -1])
               /\ UNCHANGED activeDownloads
          ELSE /\ downloads' = updateDownloadStatus(downloads, id, COMPLETED, NULL)
               /\ Commit(Finished(h), CompletedMap(id))
    /\ event' = NoEvent
    /\ UNCHANGED <<boot, nextId, files, tasks, calls>>

ExecClearResume(h) ==
    /\ handles[h].pc = "stamped"
    /\ downloads' = updateDownloadResumeData(downloads, handles[h].downloadId, NoResume)
    /\ handles' = Handle(h, [handles[h] EXCEPT !.pc = "cleared"])
    /\ event' = NoEvent
    /\ UNCHANGED <<boot, nextId, files, activeDownloads, tasks, calls>>

ExecCompleted(h) ==
    /\ handles[h].pc = "cleared"
    /\ downloads' = updateDownloadStatus(downloads, handles[h].downloadId, COMPLETED, NULL)
    /\ Commit(Finished(h), CompletedMap(handles[h].downloadId))
    /\ event' = NoEvent
    /\ UNCHANGED <<boot, nextId, files, tasks, calls>>

\* ---- the catch block of executeDownload --------------------------------------
\* the messages that hold one of the retryableErrors when case is ignored
Retryable ==
    LET retryableErrors ==
            {<<"t", "i", "m", "e", "o", "u", "t">>,
             <<"n", "e", "t", "w", "o", "r", "k">>,
             <<"E", "C", "O", "N", "N", "R", "E", "S", "E", "T">>,
             <<"E", "C", "O", "N", "N", "R", "E", "F", "U", "S", "E", "D">>,
             <<"s", "o", "c", "k", "e", "t", " ", "h", "a", "n", "g", " ", "u", "p">>}
    IN {msg \in DOMAIN Characters :
          \E retryError \in retryableErrors :
              includes(toLowerCase(Characters[msg]), toLowerCase(retryError))}

\* a classification that retries every error
RetryEverything(msg) == TRUE

\* retryableErrors.some(e => errorMessage.toLowerCase().includes(e.toLowerCase()))
\* with 'timeout', 'network', 'ECONNRESET', 'ECONNREFUSED', 'socket hang up'
shouldRetryDownload(msg) == msg \in Retryable
\* a catch block for which no error is a lost connection
NoConnectionLoss(msg) == FALSE

\* errorMessage.includes('unexpected end of stream') || errorMessage.includes('network'):
\* includes compares case, so "Network request failed" is not one
IsConnectionLoss(msg) ==
    \/ includes(Characters[msg], Characters[EndOfStream])
    \/ includes(Characters[msg], <<"n", "e", "t", "w", "o", "r", "k">>)

\* a backoff that grows by the base delay
LinearDelay(n) == RETRY_DELAY_BASE_MS * n

\* RETRY_DELAY_BASE_MS * Math.pow(2, retryCount - 1), retryCount incremented
RetryDelay(n) == RETRY_DELAY_BASE_MS * 2^(n - 1)

Retrying(msg) == "Retrying after error: " \o msg

ExecCatch(h, msg) ==
    LET id == handles[h].downloadId
        run == [handles[h] EXCEPT !.written = 0]
    IN IF ~IsAttached(id)
       THEN /\ Commit(Finished(h), activeDownloads)
            /\ UNCHANGED downloads
       ELSE IF shouldRetryDownload(msg) /\ handles[h].retryCount < MAX_RETRY_ATTEMPTS
            THEN /\ handles' = Handle(h, [run EXCEPT
                                             !.pc = "timer", !.retryCount = @ + 1,
                                             !.delay = RetryDelay(handles[h].retryCount + 1)])
                 /\ downloads' = updateDownloadStatus(downloads, id, PAUSED, Retrying(msg))
                 /\ UNCHANGED activeDownloads
            ELSE IF IsConnectionLoss(msg)
                 THEN /\ downloads' = updateDownloadResumeData(downloads, id, savable(h))
                      /\ handles' = Handle(h, [run EXCEPT !.pc = "lost"])
                      /\ UNCHANGED activeDownloads
                 ELSE /\ downloads' = updateDownloadStatus(downloads, id, FAILED, msg)
                      /\ handles' = Handle(h, [run EXCEPT !.pc = "detach"])
                      /\ UNCHANGED activeDownloads

\* downloadAsync rejects while the transfer runs
TransferFails(h, msg) ==
    /\ handles[h].pc = "running"
    /\ faults > 0
    /\ faults' = faults - 1
    /\ ExecCatch(h, msg)
    /\ event' = Settled("downloadAsync", handles[h].downloadId, msg)
    /\ UNCHANGED <<appState, hasInitialized, sweep, nextId, files, tasks, calls,
                   database, now, disk, pausedAt>>

\* downloadAsync of a paused transfer settles without a result
ExecCancelled(h) ==
    /\ handles[h].pc = "cancelled"
    /\ ExecCatch(h, StatusUndefined)
    /\ event' = NoEvent
    /\ UNCHANGED <<boot, nextId, files, tasks, calls>>

ExecLost(h) ==
    /\ handles[h].pc = "lost"
    /\ downloads' = updateDownloadStatus(downloads, handles[h].downloadId, PAUSED, NetworkLost)
    /\ handles' = Handle(h, [handles[h] EXCEPT !.pc = "detach"])
    /\ event' = NoEvent
    /\ UNCHANGED <<boot, nextId, files, activeDownloads, tasks, calls>>

\* activeDownloads.delete(downloadId), the last statement of the catch block
ExecDetach(h) ==
    /\ handles[h].pc = "detach"
    /\ Commit(Finished(h), Remove(activeDownloads, handles[h].downloadId))
    /\ event' = NoEvent
    /\ UNCHANGED <<boot, downloads, nextId, files, tasks, calls>>

\* ---- retryDownload: the setTimeout callback ----------------------------------
RetryTimer(h) ==
    /\ handles[h].pc = "timer"
    /\ IF IsAttached(handles[h].downloadId)
       THEN /\ downloads' = updateDownloadStatus(downloads, handles[h].downloadId,
                                                 DOWNLOADING, NULL)
            /\ handles' = Handle(h, [handles[h] EXCEPT !.pc = "attached", !.delay = 0])
            /\ UNCHANGED activeDownloads
       ELSE /\ Commit(Finished(h), activeDownloads)
            /\ UNCHANGED downloads
    /\ event' = NoEvent
    /\ UNCHANGED <<boot, nextId, files, tasks, calls>>

Transfer(h) ==
    \/ ExecuteDownload(h)
    \/ Progress(h)
    \/ TransferSucceeds(h)
    \/ \E msg \in TransferErrors : TransferFails(h, msg)
    \/ ExecStamp(h)
    \/ ExecClearResume(h)
    \/ ExecCompleted(h)
    \/ ExecCancelled(h)
    \/ ExecLost(h)
    \/ ExecDetach(h)
    \/ RetryTimer(h)

Service(t) ==
    \/ StartDecide(t)
    \/ StartInsert(t)
    \/ CancelPaused(t)
    \/ DeleteFile(t)
    \/ DeleteRecord(t)
    \/ StartNewDownload(t)
    \/ PausePaused(t)
    \/ PauseSaved(t)
    \/ ResumeSelected(t)

Next ==
    \/ Initialize
    \/ InitSweep
    \/ InitReturn
    \/ \E mk \in MediaKeys, sid \in Servers : StartDownload(mk, sid)
    \/ \E id \in Ids : CancelAndDeleteDownload(id)
    \/ \E id \in Ids : PauseDownload(id)
    \/ \E id \in Ids : ResumeDownload(id)
    \/ \E t \in Suspended : Service(t)
    \/ \E h \in Hs : Transfer(h)

Spec == Init /\ [][Next]_vars

\* ---- pause and resume of one download ------------------------------------------
\* the Downloads screen alone: one row left by an earlier process, and the
\* Pause and Resume buttons of that row
InitRoundTrip ==
    /\ appState = "boot"
    /\ hasInitialized = FALSE
    /\ sweep = <<>>
    /\ downloads \in { (1 :> r) : r \in Leftover("m1", "s1", 1) }
    /\ nextId = 2
    /\ files = InitialFiles(downloads)
    /\ activeDownloads = <<>>
    /\ handles = <<>>
    /\ tasks = EmptyBag
    /\ calls = MaxRoundTrip
    /\ faults = MaxFaults
    /\ event = NoEvent
    /\ database = Migrated
    /\ now = 0
    /\ disk = <<>>
    /\ pausedAt = <<>>

PauseResume(t) ==
    \/ PausePaused(t)
    \/ PauseSaved(t)
    \/ ResumeSelected(t)

NextRoundTrip ==
    \/ Initialize
    \/ InitSweep
    \/ InitReturn
    \/ \E id \in Ids : PauseDownload(id)
    \/ \E id \in Ids : ResumeDownload(id)
    \/ \E t \in Suspended : PauseResume(t)
    \/ \E h \in Hs : Transfer(h)

SpecRoundTrip == InitRoundTrip /\ [][NextRoundTrip]_vars

\* ---- automatic retry of one download -----------------------------------------------
\* one row left by an earlier process, its Pause and Resume buttons, and a
\* network that fails transfers more often than one attachment retries
InitRetry ==
    /\ appState = "boot"
    /\ hasInitialized = FALSE
    /\ sweep = <<>>
    /\ downloads \in { (1 :> r) : r \in Leftover("m1", "s1", 1) }
    /\ nextId = 2
    /\ files = InitialFiles(downloads)
    /\ activeDownloads = <<>>
    /\ handles = <<>>
    /\ tasks = EmptyBag
    /\ calls = MaxRetryCalls
    /\ faults = MaxRetryFaults
    /\ event = NoEvent
    /\ database = Migrated
    /\ now = 0
    /\ disk = <<>>
    /\ pausedAt = <<>>

NextRetry ==
    \/ Initialize
    \/ InitSweep
    \/ InitReturn
    \/ \E id \in Ids : PauseDownload(id)
    \/ \E id \in Ids : ResumeDownload(id)
    \/ \E t \in Suspended : PauseResume(t)
    \/ \E h \in Hs : Transfer(h)
    \/ \E h \in Hs, msg \in TransientErrors \cup PermanentErrors : TransferFails(h, msg)

SpecRetry == InitRetry /\ [][NextRetry]_vars

\* ---- start and delete of downloads with posters ------------------------------------
\* an id no row has ever had
NoSuchId == 9

\* a row of the poster item left by an earlier process, with its thumbnail
\* fetched or not
InitialPosterStores ==
    {<<>>}
    \cup { (1 :> [r EXCEPT !.local_thumbnail_path = p]) :
             r \in Leftover(Poster, "s1", 1), p \in {0, ThumbnailPath(Poster)} }

InitialThumbnails(tbl) ==
    {tbl[i].local_thumbnail_path : i \in DOMAIN tbl} \ {0}

InitDelete ==
    /\ appState = "boot"
    /\ hasInitialized = FALSE
    /\ sweep = <<>>
    /\ downloads \in InitialPosterStores
    /\ nextId = Cardinality(DOMAIN downloads) + 1
    /\ files = InitialFiles(downloads) \cup InitialThumbnails(downloads)
    /\ activeDownloads = <<>>
    /\ handles = <<>>
    /\ tasks = EmptyBag
    /\ calls = MaxDeleteCalls
    /\ faults = MaxFaults
    /\ event = NoEvent
    /\ database = Migrated
    /\ now = 0
    /\ disk = <<>>
    /\ pausedAt = <<>>

StartDelete(t) ==
    \/ StartDecide(t)
    \/ StartInsert(t)
    \/ CancelPaused(t)
    \/ DeleteFile(t)
    \/ DeleteThumbnail(t)
    \/ DeleteRecord(t)
    \/ StartNewDownload(t)
    \/ ThumbnailFetch(t)
    \/ ThumbnailSaved(t)

NextDelete ==
    \/ Initialize
    \/ InitSweep
    \/ InitReturn
    \/ \E sid \in Servers : StartDownload(Poster, sid)
    \/ \E id \in Ids \cup {NoSuchId} : CancelAndDeleteDownload(id)
    \/ \E t \in Suspended : StartDelete(t)
    \/ \E h \in Hs : Transfer(h)

SpecDelete == InitDelete /\ [][NextDelete]_vars

\* ---- findOrphanedFiles ---------------------------------------------------------------
\* getInfoAsync of an entry of the downloads directory
NoEntry == [exists |-> FALSE, isDirectory |-> FALSE, size |-> 0]
File(size) == [exists |-> TRUE, isDirectory |-> FALSE, size |-> size]
Directory == [exists |-> TRUE, isDirectory |-> TRUE, size |-> 0]
getInfo(path) == IF path \in files THEN disk[path] ELSE NoEntry

\* a scan that reports every entry that exists
Exists(info) == info.exists

\* fileInfo.exists && !fileInfo.isDirectory
IsRegularFile(info) == info.exists /\ ~info.isDirectory

\* new Set(allDownloads.map(d => d.local_file_path))
knownFilePaths(tbl) == {tbl[i].local_file_path : i \in DOMAIN tbl}

\* the loop runs on without an await over the names a record knows
RECURSIVE SkipKnown(_, _)
SkipKnown(names, known) ==
    IF names = <<>> \/ Head(names) \notin known
    THEN names
    ELSE SkipKnown(Tail(names), known)

\* the call up to its first await: readDirectoryAsync(downloadsDir) is issued
FindOrphanedFiles ==
    /\ Call
    /\ tasks' = Spawn([op |-> "findOrphanedFiles", pc |-> "list", id |-> 0,
                       dirContents |-> Descending(files), known |-> {},
                       info |-> NoEntry, orphanedFiles |-> {}])
    /\ event' = NoEvent
    /\ UNCHANGED <<boot, downloads, nextId, files, activeDownloads, handles>>

\* the loop from name list `rest` on: return at its end, else await
\* getInfoAsync of the next name no record knows
ScanFrom(t, rest, found) ==
    IF rest = <<>>
    THEN /\ tasks' = Finish(t)
         /\ event' = [Settled("findOrphanedFiles", 0, NULL) EXCEPT !.orphans = found]
    ELSE /\ tasks' = Step(t, [t EXCEPT !.pc = "info", !.dirContents = rest,
                                       !.info = getInfo(Head(rest)),
                                       !.orphanedFiles = found])
         /\ event' = NoEvent

\* after readDirectoryAsync: getAllDownloads() is issued
OrphansListed(t) ==
    /\ t.op = "findOrphanedFiles" /\ t.pc = "list"
    /\ tasks' = Step(t, [t EXCEPT !.pc = "selected", !.known = knownFilePaths(downloads)])
    /\ event' = NoEvent
    /\ UNCHANGED <<boot, downloads, nextId, files, activeDownloads, handles, calls>>

\* after getAllDownloads: the loop starts
OrphansSelected(t) ==
    /\ t.op = "findOrphanedFiles" /\ t.pc = "selected"
    /\ ScanFrom(t, SkipKnown(t.dirContents, t.known), {})
    /\ UNCHANGED <<boot, downloads, nextId, files, activeDownloads, handles, calls>>

\* after getInfoAsync of the first name of dirContents
OrphansInfo(t) ==
    /\ t.op = "findOrphanedFiles" /\ t.pc = "info"
    /\ LET uri == Head(t.dirContents)
           found == IF IsRegularFile(t.info)
                    THEN t.orphanedFiles \cup {[uri |-> uri, size |-> t.info.size]}
                    ELSE t.orphanedFiles
       IN ScanFrom(t, SkipKnown(Tail(t.dirContents), t.known), found)
    /\ UNCHANGED <<boot, downloads, nextId, files, activeDownloads, handles, calls>>

\* the Downloads screen with no transfer running: a directory of files and
\* subdirectories, and up to two records whose files are there or not
Entries == {Directory} \cup {File(n) : n \in 1..MaxSize}
Disks == UNION {[S -> Entries] : S \in SUBSET (1..MaxEntries)}
ScannedStores ==
    {<<>>}
    \cup { (1 :> r) : r \in {[NewRow("m1", "s1", p) EXCEPT !.download_status = PAUSED] :
                               p \in 1..MaxEntries} }
    \cup { (1 :> r1) @@ (2 :> r2) :
             r1 \in {[NewRow("m1", "s1", p) EXCEPT !.download_status = PAUSED] :
                       p \in 1..MaxEntries},
             r2 \in {[NewRow(Poster, "s1", p) EXCEPT !.download_status = COMPLETED] :
                       p \in 1..MaxEntries} }

InitOrphans ==
    /\ appState = "ready"
    /\ hasInitialized = TRUE
    /\ sweep = <<>>
    /\ downloads \in ScannedStores
    /\ nextId = Cardinality(DOMAIN downloads) + 1
    /\ disk \in Disks
    /\ files = DOMAIN disk
    /\ activeDownloads = <<>>
    /\ handles = <<>>
    /\ tasks = EmptyBag
    /\ calls = MaxScans
    /\ faults = 0
    /\ event = NoEvent
    /\ database = Migrated
    /\ now = 0
    /\ pausedAt = <<>>

NextOrphans ==
    \/ FindOrphanedFiles
    \/ \E t \in Suspended : OrphansListed(t)
    \/ \E t \in Suspended : OrphansSelected(t)
    \/ \E t \in Suspended : OrphansInfo(t)

SpecOrphans == InitOrphans /\ [][NextOrphans]_vars

\* ---- the Download button and the Resume buttons ---------------------------------------
\* App.handleDownload: the one place that compares the number of attached
\* downloads with MAX_CONCURRENT_DOWNLOADS; at the limit it shows a toast and
\* calls nothing
handleDownload(mk, sid) ==
    /\ getActiveDownloadsCount < MAX_CONCURRENT_DOWNLOADS
    /\ StartDownload(mk, sid)

\* an earlier process was killed with MaxQueued downloads running
InitLimit ==
    /\ appState = "boot"
    /\ hasInitialized = FALSE
    /\ sweep = <<>>
    /\ downloads = [i \in 1..MaxQueued |->
                      [NewRow(ToString(i), "s1", i) EXCEPT
                         !.download_status = DOWNLOADING, !.downloaded_bytes = 1,
                         !.file_size = FileSize, !.resume_data = PauseState(-1)]]
    /\ nextId = MaxQueued + 1
    /\ files = InitialFiles(downloads)
    /\ activeDownloads = <<>>
    /\ handles = <<>>
    /\ tasks = EmptyBag
    /\ calls = MaxQueued
    /\ faults = 0
    /\ event = NoEvent
    /\ database = Migrated
    /\ now = 0
    /\ disk = <<>>
    /\ pausedAt = <<>>

NextLimit ==
    \/ Initialize
    \/ InitSweep
    \/ InitReturn
    \/ \E mk \in MediaKeys, sid \in Servers : handleDownload(mk, sid)
    \/ \E id \in Ids : ResumeDownload(id)
    \/ \E t \in Suspended : Service(t)
    \/ \E h \in Hs : ExecuteDownload(h)

SpecLimit == InitLimit /\ [][NextLimit]_vars

\* ---- the clock and the generated file names --------------------------------------
\* a millisecond passes between two steps of the program
Tick ==
    /\ now < MaxClock
    /\ now' = now + 1
    /\ UNCHANGED <<appState, hasInitialized, sweep, downloads, nextId, files,
                   activeDownloads, handles, tasks, calls, faults, event, database, disk,
                   pausedAt>>

\* an initialized service over an empty table
InitFileName ==
    /\ appState = "ready"
    /\ hasInitialized = TRUE
    /\ sweep = <<>>
    /\ downloads = <<>>
    /\ nextId = 1
    /\ files = {}
    /\ activeDownloads = <<>>
    /\ handles = <<>>
    /\ tasks = EmptyBag
    /\ calls = MaxNamed
    /\ faults = 0
    /\ event = NoEvent
    /\ database = Migrated
    /\ now = 1
    /\ disk = <<>>
    /\ pausedAt = <<>>

NextFileName ==
    \/ Tick
    \/ \E mk \in DOMAIN Catalogue, sid \in Servers : StartDownload(mk, sid)
    \/ \E t \in Suspended : Service(t)

SpecFileName == InitFileName /\ [][NextFileName]_vars

\* ---- initializeDatabase: runMigrations, then createTables --------------------------
DuplicateColumn == "duplicate column name"

\* e.message.includes('duplicate column name')
NeverDuplicate(err) == FALSE
IsDuplicateColumn(err) == err = DuplicateColumn

\* what ALTER TABLE downloads ADD COLUMN col raises (NULL: nothing)
AlterError(col) ==
    IF "downloads" \notin database.tables THEN "no such table: downloads"
    ELSE IF col \in database.columns THEN DuplicateColumn
    ELSE NULL

\* the column a migration step adds: version 2 local_thumbnail_path, version 3
\* resume_data
MigrationColumn(version) == IF version = 2 THEN "local_thumbnail_path" ELSE "resume_data"

\* the if-chain of runMigrations from currentVersion up to its next await,
\* the statement it issues taking effect at once; past the last step
\* runMigrations returns and createTables issues CREATE TABLE IF NOT EXISTS
\* downloads
MigrateFrom(t, currentVersion) ==
    IF currentVersion < 1
    THEN /\ database' = [database EXCEPT !.db_version = Append(@, 1)]
         /\ tasks' = Step(t, [t EXCEPT !.pc = "bumped", !.currentVersion = 1])
         /\ UNCHANGED downloads
    ELSE IF currentVersion < CURRENT_DB_VERSION
    THEN LET col == MigrationColumn(currentVersion + 1)
             err == AlterError(col)
         IN /\ tasks' = Step(t, [t EXCEPT !.pc = "altered", !.err = err,
                                          !.currentVersion = currentVersion])
            /\ IF err = NULL
               THEN /\ database' = [database EXCEPT !.columns = @ \cup {col}]
                    /\ downloads' =
                         [i \in DOMAIN downloads |->
                            [c \in DOMAIN downloads[i] \cup {col} |->
                               IF c = col THEN NoRow[c] ELSE downloads[i][c]]]
               ELSE UNCHANGED <<database, downloads>>
    ELSE /\ database' =
              IF "downloads" \in database.tables THEN database
              ELSE [database EXCEPT !.tables = @ \cup {"downloads"},
                                    !.columns = CurrentColumns]
         /\ tasks' = Step(t, [t EXCEPT !.pc = "downloads_table",
                                       !.currentVersion = currentVersion])
         /\ UNCHANGED downloads

\* the Retry button and the start of the app call initializeDatabase, one call
\* at a time; with the handle set the call returns it at once
InitializeDatabase ==
    /\ calls > 0
    /\ tasks = EmptyBag
    /\ calls' = calls - 1
    /\ IF database.db
       THEN /\ event' = Settled("initializeDatabase", 0, NULL)
            /\ UNCHANGED tasks
       ELSE /\ event' = NoEvent
            /\ tasks' = Spawn([op |-> "initializeDatabase", pc |-> "open",
                               currentVersion |-> 0, err |-> NULL])
    /\ UNCHANGED <<appState, hasInitialized, sweep, downloads, nextId, files,
                   activeDownloads, handles, faults, database, now, disk, pausedAt>>

\* the continuations of initializeDatabase, runMigrations and createTables
DatabaseStep(t) ==
    /\ t.op = "initializeDatabase"
    /\ CASE t.pc = "open" ->
              \* db = the opened database; PRAGMA foreign_keys
              /\ database' = [database EXCEPT !.db = TRUE]
              /\ tasks' = Step(t, [t EXCEPT !.pc = "pragma"])
              /\ UNCHANGED <<downloads, event>>
         [] t.pc = "pragma" ->
              \* CREATE TABLE IF NOT EXISTS db_version
              /\ database' = [database EXCEPT !.tables = @ \cup {"db_version"}]
              /\ tasks' = Step(t, [t EXCEPT !.pc = "version_table"])
              /\ UNCHANGED <<downloads, event>>
         [] t.pc = "version_table" ->
              \* SELECT version FROM db_version: the first row, or none
              /\ tasks' = Step(t, [t EXCEPT !.pc = "selected", !.currentVersion =
                                      IF database.db_version = <<>> THEN 0
                                      ELSE Head(database.db_version)])
              /\ UNCHANGED <<database, downloads, event>>
         [] t.pc \in {"selected", "bumped"} ->
              /\ MigrateFrom(t, t.currentVersion)
              /\ UNCHANGED event
         [] t.pc = "altered" ->
              IF t.err = NULL \/ IsDuplicateColumn(t.err)
              THEN \* UPDATE db_version SET version = ?
                   /\ database' = [database EXCEPT !.db_version =
                                     [k \in DOMAIN @ |-> t.currentVersion + 1]]
                   /\ tasks' = Step(t, [t EXCEPT !.pc = "bumped", !.err = NULL,
                                                 !.currentVersion = @ + 1])
                   /\ UNCHANGED <<downloads, event>>
              ELSE \* throw e: initializeDatabase rejects
                   /\ tasks' = Finish(t)
                   /\ event' = Settled("initializeDatabase", 0, t.err)
                   /\ UNCHANGED <<database, downloads>>
         [] t.pc = "downloads_table" ->
              \* CREATE INDEX and CREATE TABLE IF NOT EXISTS servers
              /\ database' = [database EXCEPT !.tables = @ \cup {"servers"}]
              /\ tasks' = Step(t, [t EXCEPT !.pc = "servers_table"])
              /\ UNCHANGED <<downloads, event>>
         [] t.pc = "servers_table" ->
              \* CREATE TABLE IF NOT EXISTS app_state
              /\ database' = [database EXCEPT !.tables = @ \cup {"app_state"}]
              /\ tasks' = Step(t, [t EXCEPT !.pc = "app_state_table"])
              /\ UNCHANGED <<downloads, event>>
         [] t.pc = "app_state_table" ->
              /\ tasks' = Finish(t)
              /\ event' = Settled("initializeDatabase", 0, NULL)
              /\ UNCHANGED <<database, downloads>>
    /\ UNCHANGED <<appState, hasInitialized, sweep, nextId, files, activeDownloads,
                   handles, calls, faults, now, disk, pausedAt>>

\* the app is closed and started again: the module's state is gone, the file stays
Relaunch ==
    /\ calls > 0
    /\ database.db
    /\ database' = [database EXCEPT !.db = FALSE]
    /\ tasks' = EmptyBag
    /\ event' = NoEvent
    /\ UNCHANGED <<appState, hasInitialized, sweep, downloads, nextId, files,
                   activeDownloads, handles, calls, faults, now, disk, pausedAt>>

\* the SQLite files the app can find at its start: none, or one that an earlier
\* build or an interrupted start left, with the downloads table at one of the
\* three schemas, a version row no higher than its columns allow, and one
\* completed download or none
InitialDatabases ==
    {[db |-> FALSE, tables |-> {}, columns |-> {}, db_version |-> <<>>]} \cup
    UNION {{[db |-> FALSE, tables |-> Migrated.tables, columns |-> cols, db_version |-> v] :
              v \in {<<>>} \cup
                    {<<n>> : n \in {m \in 1..CURRENT_DB_VERSION :
                                      \A k \in 2..m : MigrationColumn(k) \in cols}}} :
           cols \in {BaseColumns, BaseColumns \cup {"local_thumbnail_path"},
                     CurrentColumns}}

InitMigrate ==
    /\ appState = "boot"
    /\ hasInitialized = FALSE
    /\ sweep = <<>>
    /\ database \in InitialDatabases
    /\ downloads \in
         IF "downloads" \notin database.tables THEN {<<>>}
         ELSE {<<>>,
               <<[c \in database.columns |->
                    [NewRow("m1", "s1", 1) EXCEPT !.download_status = COMPLETED,
                                                  !.file_size = FileSize,
                                                  !.downloaded_bytes = FileSize,
                                                  !.local_thumbnail_path = -1][c]]>>}
    /\ nextId = Len(downloads) + 1
    /\ files = {}
    /\ activeDownloads = <<>>
    /\ handles = <<>>
    /\ tasks = EmptyBag
    /\ calls = MaxOpens
    /\ faults = 0
    /\ event = NoEvent
    /\ now = 0
    /\ disk = <<>>
    /\ pausedAt = <<>>

NextMigrate ==
    \/ InitializeDatabase
    \/ \E t \in Suspended : DatabaseStep(t)
    \/ Relaunch

SpecMigrate == InitMigrate /\ [][NextMigrate]_vars

\* ---- ensureDirectoryExists ----------------------------------------------------------
MaxEnsures == 3

\* what FileSystem.makeDirectoryAsync(dir, options) raises (NULL: nothing): a
\* directory that is there is an error unless intermediates is set
makeDirectoryStrict(dir, options) ==
    IF getInfo(dir).exists THEN "Directory already exists" ELSE NULL
makeDirectoryAsync(dir, options) ==
    IF getInfo(dir).exists /\ ~options.intermediates
    THEN "Directory already exists" ELSE NULL

\* startDownload and downloadThumbnail call ensureDirectoryExists(name):
\* getInfoAsync is issued and answers, or raises
EnsureDirectoryExists(name) ==
    /\ calls > 0
    /\ calls' = calls - 1
    /\ \/ /\ tasks' = Spawn([op |-> "ensureDirectoryExists", pc |-> "info", name |-> name,
                             dirInfo |-> getInfo(name), err |-> NULL])
          /\ UNCHANGED faults
       \/ /\ faults > 0
          /\ faults' = faults - 1
          /\ tasks' = Spawn([op |-> "ensureDirectoryExists", pc |-> "caught", name |-> name,
                             dirInfo |-> NoEntry, err |-> NULL])
    /\ event' = NoEvent
    /\ UNCHANGED <<appState, hasInitialized, sweep, downloads, nextId, files,
                   activeDownloads, handles, database, now, disk, pausedAt>>

\* the continuations of ensureDirectoryExists; makeDirectoryAsync makes the
\* directory when it is issued
EnsureStep(t) ==
    /\ t.op = "ensureDirectoryExists"
    /\ LET options == [intermediates |-> TRUE]
           err == makeDirectoryAsync(t.name, options)
           make(pc) ==
               /\ tasks' = Step(t, [t EXCEPT !.pc = pc, !.err = err])
               /\ files' = IF err = NULL THEN files \cup {t.name} ELSE files
               /\ disk' = IF err = NULL /\ t.name \notin files
                          THEN [n \in files \cup {t.name} |->
                                  IF n = t.name THEN Directory ELSE disk[n]]
                          ELSE disk
               /\ event' = NoEvent
           return(e) ==
               /\ tasks' = Finish(t)
               /\ event' = Settled("ensureDirectoryExists", 0, e)
               /\ UNCHANGED <<files, disk>>
       IN CASE t.pc = "info" -> IF t.dirInfo.exists THEN return(NULL) ELSE make("made")
            [] t.pc = "made" -> IF t.err = NULL THEN return(NULL) ELSE make("remade")
            [] t.pc = "caught" -> make("remade")
            [] t.pc = "remade" -> return(t.err)
    /\ UNCHANGED <<appState, hasInitialized, sweep, downloads, nextId, activeDownloads,
                   handles, calls, faults, database, now, pausedAt>>

\* the document directory with none, one or both of the two directories
InitDirs ==
    /\ appState = "ready"
    /\ hasInitialized = TRUE
    /\ sweep = <<>>
    /\ downloads = <<>>
    /\ nextId = 1
    /\ files \in SUBSET {"downloads", "thumbnails"}
    /\ disk = [n \in files |-> Directory]
    /\ activeDownloads = <<>>
    /\ handles = <<>>
    /\ tasks = EmptyBag
    /\ calls = MaxEnsures
    /\ faults = MaxFaults
    /\ event = NoEvent
    /\ database = Migrated
    /\ now = 0
    /\ pausedAt = <<>>

NextDirs ==
    \/ \E name \in {"downloads", "thumbnails"} : EnsureDirectoryExists(name)
    \/ \E t \in Suspended : EnsureStep(t)

SpecDirs == InitDirs /\ [][NextDirs]_vars

\* ==== properties ==================================================================

\* C1: in every reachable state the downloads table holds at most one row per
\* (media_rating_key, server_identifier) pair, whatever the interleaving of
\* startDownload, cancelAndDeleteDownload and initialize, two overlapping
\* startDownload calls for the same pair included.
C1_OneRecordPerPair ==
    \A i, j \in DOMAIN downloads :
        (/\ downloads[i].media_rating_key = downloads[j].media_rating_key
         /\ downloads[i].server_identifier = downloads[j].server_identifier) => i = j

\* two startDownload calls passed the existence check before either inserted:
\* the second INSERT has just been rejected and the first call's row is there
C1_OverlappedStartRejected ==
    /\ event = Settled("startDownload", 0, UniqueFailed)
    /\ Cardinality(DOMAIN downloads) = 1

\* C2: for every download id at most one executeDownload run is attached or
\* running at any instant.
C2_OneLoopPerDownload ==
    \A g, h \in Hs :
        (/\ handles[g].downloadId = handles[h].downloadId
         /\ handles[g].pc \notin {"cancelled", "finished"}
         /\ handles[h].pc \notin {"cancelled", "finished"}) => g = h

\* C3: every row whose status is completed has downloaded_bytes equal to
\* file_size and a null resume_data.
C3_CompletedBookkeeping ==
    \A i \in DOMAIN downloads :
        downloads[i].download_status = COMPLETED =>
            /\ downloads[i].downloaded_bytes = downloads[i].file_size
            /\ downloads[i].resume_data = NoResume

\* C4: once a row's status is completed its id is not in the activeDownloads
\* map, so isDownloadActive(id) is false and getActiveDownloadsCount() does
\* not count it.
C4_CompletedDetached ==
    \A i \in DOMAIN downloads :
        downloads[i].download_status = COMPLETED => ~IsAttached(i)

\* C5: whenever a pauseDownload call returns it has not thrown and the row it
\* was called on has status paused, whether or not a transfer was attached.
C5_PauseLeavesPaused ==
    event.op = "pauseDownload" =>
        /\ event.err = NULL
        /\ event.id \in DOMAIN downloads =>
               downloads[event.id].download_status = PAUSED

\* C6: initialize() in a fresh process (empty activeDownloads map) queues every
\* row whose status is downloading or pending, turns each queued row to paused
\* if its server is in the servers table and to failed with 'Server no longer
\* available' if it is not, changes nothing else but the row's updated_at, and
\* when it returns no row is downloading or pending.
C6_Reconciliation ==
    /\ [](appState = "sweeping" =>
            \A i \in DOMAIN downloads :
                downloads[i].download_status \in {DOWNLOADING, PENDING} =>
                    \E k \in 1..Len(sweep) : sweep[k] = i)
    /\ [][(appState = "sweeping" /\ sweep # <<>>) =>
            LET id == Head(sweep)
                known == downloads[id].server_identifier \in Servers
            IN downloads' = [downloads EXCEPT
                   ![id].download_status = IF known THEN PAUSED ELSE FAILED,
                   ![id].error_message = IF known THEN NULL ELSE ServerGone,
                   ![id].updated_at = now]]_vars
    /\ [](event.op = "initialize" =>
            /\ activeDownloads = <<>>
            /\ \A i \in DOMAIN downloads :
                   downloads[i].download_status \notin {DOWNLOADING, PENDING})

\* initialize() has returned after a sweep over a row whose server is gone and
\* a row whose server is known
C6_SweptBothKinds ==
    /\ event.op = "initialize"
    /\ \E i \in DOMAIN downloads :
           /\ downloads[i].download_status = FAILED
           /\ downloads[i].error_message = ServerGone
    /\ \E i \in DOMAIN downloads :
           /\ downloads[i].download_status = PAUSED
           /\ downloads[i].server_identifier \in Servers

\* C7: a startDownload whose lookup found a row of the pair in a status other
\* than failed throws 'This item is already in the queue.' and changes neither
\* the table (no second row, the row found untouched), nor the files, nor the
\* activeDownloads map.
C7_AlreadyQueued ==
    [][\A t \in Suspended :
          (/\ t.op = "startDownload" /\ t.pc = "lookup"
           /\ t.row.exists /\ t.row.download_status # FAILED
           /\ CopiesIn(t, tasks') < CopiesIn(t, tasks)) =>
              /\ event' = Settled("startDownload", t.id, AlreadyQueued)
              /\ UNCHANGED <<downloads, nextId, files, activeDownloads, handles>>]_vars

\* a startDownload has just been rejected for a row that is not failed
C7_Rejected ==
    /\ event.op = "startDownload"
    /\ event.err = AlreadyQueued
    /\ event.id \in DOMAIN downloads
    /\ downloads[event.id].download_status \in {PAUSED, DOWNLOADING, COMPLETED}

\* C8 as claimed: when a startDownload that found a failed row of the pair
\* reaches its INSERT, the failed row and its file are gone, and the INSERT
\* creates a row with a new id, status pending, 0 bytes and no resume_data.
C8_FailedReplacedWithFile ==
    [][\A t \in Suspended :
          (/\ t.op = "startDownload" /\ t.pc = "deleted"
           /\ CopiesIn(t, tasks') < CopiesIn(t, tasks)) =>
              /\ t.id \notin DOMAIN downloads'
              /\ t.row.exists => t.row.local_file_path \notin files'
              /\ event' = Settled("startDownload", nextId, NULL)
              /\ nextId \notin DOMAIN downloads
              /\ downloads' = Put(downloads, nextId,
                     [media_rating_key |-> t.mk, server_identifier |-> t.sid,
                      local_file_path |-> nextId, download_status |-> PENDING,
                      file_size |-> -1, downloaded_bytes |-> 0,
                      error_message |-> NULL, resume_data |-> NoResume,
                      local_thumbnail_path |-> 0, updated_at |-> now])]_vars

\* C8 amended: a startDownload that found a failed row of the pair first
\* runs deleteDownload on it: the file is removed unless its deletion throws
\* (the error is logged and nothing else changes), and the row is removed
\* either way.  Its INSERT then finds the old id gone; unless an overlapping
\* startDownload has inserted the pair meanwhile (the INSERT is then rejected
\* by the UNIQUE constraint and the table is left alone) it creates a row with
\* an id that was never used, status pending, 0 bytes and no resume_data.
C8_FailedReplaced ==
    [][\A t \in Suspended :
          /\ (/\ t.op = "startDownload" /\ t.pc = "delete_selected" /\ t.row.exists
              /\ CopiesIn(t, tasks') < CopiesIn(t, tasks)) =>
                 /\ UNCHANGED <<downloads, nextId>>
                 /\ \/ t.row.local_file_path \notin files'
                    \/ \E u \in BagToSet(tasks') : u.res = Threw /\ files' = files
          /\ (/\ t.op = "startDownload" /\ t.pc = "deleted"
              /\ CopiesIn(t, tasks') < CopiesIn(t, tasks)) =>
                 /\ t.id \notin DOMAIN downloads'
                 /\ IF \E i \in DOMAIN downloads :
                          /\ downloads[i].media_rating_key = t.mk
                          /\ downloads[i].server_identifier = t.sid
                    THEN /\ event' = Settled("startDownload", 0, UniqueFailed)
                         /\ UNCHANGED <<downloads, nextId>>
                    ELSE /\ event' = Settled("startDownload", nextId, NULL)
                         /\ \A i \in DOMAIN downloads \cup {t.id} : i < nextId
                         /\ downloads' = Put(downloads, nextId,
                                [media_rating_key |-> t.mk, server_identifier |-> t.sid,
                                 local_file_path |-> nextId, download_status |-> PENDING,
                                 file_size |-> -1, downloaded_bytes |-> 0,
                                 error_message |-> NULL, resume_data |-> NoResume,
                                 local_thumbnail_path |-> 0, updated_at |-> now])]_vars

\* the only call made so far, a startDownload, has returned the id of a new
\* pending row, and the failed row 1 it found is gone
C8_Replaced ==
    /\ event = Settled("startDownload", 2, NULL)
    /\ calls = MaxCalls - 1
    /\ DOMAIN downloads = {2}
    /\ downloads[2].download_status = PENDING

\* C9: a resumeDownload that read a row (not completed, its server known) whose
\* resume_data does not parse returns without throwing, attaches a transfer
\* built without resumeData for the row's local_file_path, and writes status
\* downloading.
C9_CorruptCheckpointRecovers ==
    [][\A t \in Suspended :
          (/\ t.op = "resumeDownload" /\ t.pc = "selected"
           /\ t.row.exists /\ t.row.download_status # COMPLETED
           /\ t.row.server_identifier \in Servers
           /\ t.row.resume_data = Corrupt
           /\ CopiesIn(t, tasks') < CopiesIn(t, tasks)) =>
              /\ event' = Settled("resumeDownload", t.id, NULL)
              /\ t.id \in DOMAIN activeDownloads'
              /\ LET a == handles'[activeDownloads'[t.id]]
                 IN /\ a.resumeData = -1
                    /\ a.fileUri = t.row.local_file_path
                    /\ a.pc = "attached"
              /\ t.id \in DOMAIN downloads =>
                     downloads'[t.id].download_status = DOWNLOADING]_vars

\* resumeDownload has just returned for a row whose resume_data does not parse:
\* a fresh transfer is attached and the row is downloading
C9_ResumedFresh ==
    /\ event.op = "resumeDownload"
    /\ event.err = NULL
    /\ event.id \in DOMAIN downloads
    /\ downloads[event.id].resume_data = Corrupt
    /\ downloads[event.id].download_status = DOWNLOADING
    /\ IsAttached(event.id)
    /\ handles[activeDownloads[event.id]].resumeData = -1

\* C10: once pauseDownload has stored a checkpoint for a row and resumeDownload
\* has built a transfer from that checkpoint, every transfer of the row writes
\* to the row's local_file_path, and the row's downloaded_bytes never exceeds
\* its file_size nor falls below its value at the time of the pause.
C10_CheckpointRoundTrip ==
    \A i \in DOMAIN pausedAt :
        (i \in DOMAIN downloads /\ pausedAt[i].resumed) =>
            /\ \A h \in Hs : handles[h].downloadId = i =>
                   handles[h].fileUri = downloads[i].local_file_path
            /\ downloads[i].file_size >= 0 =>
                   downloads[i].downloaded_bytes <= downloads[i].file_size
            /\ downloads[i].downloaded_bytes >= pausedAt[i].bytes

\* downloadAsync of handle h rejects with msg in this step, its download being
\* attached: the catch block of h's executeDownload runs
Rejected(h, msg) ==
    /\ handles[h].pc = "running"
    /\ IsAttached(handles[h].downloadId)
    /\ event' = Settled("downloadAsync", handles[h].downloadId, msg)
    /\ h \in DOMAIN handles'
    /\ handles'[h].pc # "running"

\* the stream of an attached transfer that has reported progress is cut: the
\* row holds a checkpoint and, as downloaded_bytes, the total the progress
\* callback last reported; the next write leaves it paused with the
\* network-loss message
C11_TruncationKeepsReportedBytes ==
    /\ [][\A h \in Hs :
            LET id == handles[h].downloadId
            IN (/\ Rejected(h, EndOfStream)
                /\ handles[h].written > StartOffset(handles[h].resumeData)
                /\ id \in DOMAIN downloads)
               => /\ downloads'[id].resume_data.kind = "state"
                  /\ downloads'[id].downloaded_bytes = handles[h].written]_vars
    /\ [][\A h \in Hs :
            LET id == handles[h].downloadId
            IN (/\ handles[h].pc = "lost"
                /\ h \in DOMAIN handles' /\ handles'[h].pc # "lost"
                /\ id \in DOMAIN downloads)
               => /\ downloads'[id].download_status = PAUSED
                  /\ downloads'[id].error_message = NetworkLost]_vars

\* C11 (amended): when the stream of an attached transfer is cut, the catch
\* block stores the transfer's savable state as the row's checkpoint (non-null)
\* and touches no other column, so downloaded_bytes stays what the throttled
\* progress write last stored; its next write sets status paused with the
\* network-loss message and touches neither the checkpoint nor downloaded_bytes.
C11_TruncationPauses ==
    /\ [][\A h \in Hs :
            LET id == handles[h].downloadId
            IN Rejected(h, EndOfStream)
               => /\ handles'[h].pc = "lost"
                  /\ DOMAIN downloads' = DOMAIN downloads
                  /\ \A i \in DOMAIN downloads :
                        downloads'[i] =
                          IF i = id
                          THEN [downloads[i] EXCEPT
                                  !.resume_data = PauseState(handles[h].resumeData)]
                          ELSE downloads[i]]_vars
    /\ [][\A h \in Hs :
            LET id == handles[h].downloadId
            IN (/\ handles[h].pc = "lost"
                /\ h \in DOMAIN handles' /\ handles'[h].pc # "lost")
               => /\ handles'[h].pc = "detach"
                  /\ DOMAIN downloads' = DOMAIN downloads
                  /\ \A i \in DOMAIN downloads :
                        downloads'[i] =
                          IF i = id
                          THEN [downloads[i] EXCEPT !.download_status = PAUSED,
                                                    !.error_message = NetworkLost]
                          ELSE downloads[i]]_vars

\* a transfer whose stream was cut after progress has left its row paused with
\* a checkpoint and the network-loss message
C11_TruncationPaused ==
    \E h \in Hs :
        LET id == handles[h].downloadId
        IN /\ handles[h].pc = "detach"
           /\ id \in DOMAIN downloads
           /\ downloads[id].download_status = PAUSED
           /\ downloads[id].error_message = NetworkLost
           /\ downloads[id].resume_data.kind = "state"
           /\ downloads[id].downloaded_bytes >= 1

\* C12: a transfer of an attached download that has used up its automatic
\* retries and is rejected with a transient network error (a timeout, a
\* connection reset, a connection refused, a loss of connectivity) takes the
\* way to paused: its row gets a checkpoint and is not marked failed.
C12_ExhaustedRetriesPause ==
    [][\A h \in Hs : \A msg \in TransientErrors :
         LET id == handles[h].downloadId
         IN (/\ Rejected(h, msg)
             /\ handles[h].retryCount = MAX_RETRY_ATTEMPTS
             /\ id \in DOMAIN downloads)
            => /\ handles'[h].pc = "lost"
               /\ downloads'[id].download_status # FAILED
               /\ downloads'[id].resume_data.kind = "state"]_vars

\* C13: an attachment schedules its n-th automatic retry (n = 1, 2, 3) with a
\* timer of 2000, 4000, 8000 ms (RETRY_DELAY_BASE_MS * 2^(n-1)); every
\* scheduling counts one retry more, and no attachment ever counts more than
\* MAX_RETRY_ATTEMPTS of them, whatever errors its transfers end with.
C13_BoundedBackoff ==
    /\ [](\A h \in Hs :
            /\ handles[h].retryCount \in 0..MAX_RETRY_ATTEMPTS
            /\ handles[h].pc = "timer"
               => /\ handles[h].retryCount \in 1..3
                  /\ handles[h].delay = <<2000, 4000, 8000>>[handles[h].retryCount])
    /\ [][\A h \in Hs :
            (h \in DOMAIN handles' /\ handles[h].pc # "timer" /\ handles'[h].pc = "timer")
            => /\ handles'[h].retryCount = handles[h].retryCount + 1
               /\ handles[h].retryCount < MAX_RETRY_ATTEMPTS]_vars

\* the third retry of an attachment is pending, 8000 ms after its third error
C13_ThirdRetryScheduled ==
    \E h \in Hs : /\ handles[h].pc = "timer"
                  /\ handles[h].retryCount = 3
                  /\ handles[h].delay = 8000
                  /\ event.op = "downloadAsync"

\* C14: a transfer of an attached download whose stream is cut is never
\* retried, whatever its retry count: no timer is scheduled and the retry count
\* stays; the catch block stores the checkpoint and its next write leaves the
\* row paused with the network-loss message.
C14_TruncationNeverRetried ==
    /\ [][\A h \in Hs :
            Rejected(h, EndOfStream)
            => /\ handles'[h].pc = "lost"
               /\ handles'[h].delay = 0
               /\ handles'[h].retryCount = handles[h].retryCount]_vars
    /\ [](\A h \in Hs : handles[h].pc = "lost" => handles[h].delay = 0)
    /\ [][\A h \in Hs :
            LET id == handles[h].downloadId
            IN (/\ handles[h].pc = "lost"
                /\ h \in DOMAIN handles' /\ handles'[h].pc # "lost"
                /\ id \in DOMAIN downloads)
               => /\ handles'[h].pc = "detach"
                  /\ downloads'[id].download_status = PAUSED
                  /\ downloads'[id].error_message = NetworkLost]_vars

\* the stream is cut with one of the three retries still unused
C14_CutWithRetriesLeft ==
    \E h \in Hs : /\ handles[h].pc = "lost"
                  /\ handles[h].retryCount = 2
                  /\ event = Settled("downloadAsync", handles[h].downloadId, EndOfStream)

\* the continuation of suspended call t runs in this step
Continues(t) == CopiesIn(t, tasks') < CopiesIn(t, tasks)

\* C15: resumeDownload(id) that has loaded a record which is not completed and
\* whose server is not in the servers table marks the record failed with
\* 'Server no longer available', rejects with an error, and attaches nothing:
\* the map and the transfers stay as they are and the id is not in the map.
C15_ResumeWithoutServerFails ==
    [][\A t \in Suspended :
         (/\ t.op = "resumeDownload" /\ t.pc = "selected"
          /\ Continues(t)
          /\ t.row.exists
          /\ t.row.download_status # COMPLETED
          /\ t.row.server_identifier \notin Servers)
         => /\ event' = Settled("resumeDownload", t.id, ServerNotFound)
            /\ t.id \in DOMAIN downloads
               => /\ t.id \in DOMAIN downloads'
                  /\ downloads'[t.id].download_status = FAILED
                  /\ downloads'[t.id].error_message = ServerGone
            /\ UNCHANGED <<activeDownloads, handles>>
            /\ t.id \notin DOMAIN activeDownloads']_vars

\* resumeDownload of a paused record whose server is gone has been rejected
C15_ResumeRejected ==
    \E id \in DOMAIN downloads :
        /\ event = Settled("resumeDownload", id, ServerNotFound)
        /\ downloads[id].server_identifier = GoneServer
        /\ downloads[id].resume_data = PauseState(1)
        /\ downloads[id].download_status = FAILED
        /\ downloads[id].error_message = ServerGone
        /\ ~IsAttached(id)

\* C16: resumeDownload(id) on a completed record changes nothing from the call
\* to its return: the call itself writes nothing, and the continuation that has
\* loaded a completed record settles without an error and leaves the Store,
\* the files, the map and the transfers as they are.
C16_ResumeCompletedIgnored ==
    /\ [][\A id \in Ids :
            (/\ calls' < calls
             /\ \/ event' = Settled("resumeDownload", id, NULL)
                \/ \E t \in BagToSet(tasks') :
                      /\ t.op = "resumeDownload" /\ t.id = id
                      /\ CopiesIn(t, tasks') > CopiesIn(t, tasks))
            => UNCHANGED <<downloads, files, activeDownloads, handles>>]_vars
    /\ [][\A t \in Suspended :
            (/\ t.op = "resumeDownload" /\ t.pc = "selected"
             /\ Continues(t)
             /\ t.row.exists
             /\ t.row.download_status = COMPLETED)
            => /\ event' = Settled("resumeDownload", t.id, NULL)
               /\ UNCHANGED <<downloads, nextId, files, activeDownloads, handles>>]_vars

\* resumeDownload of a completed record that is not attached has returned
C16_CompletedLeftAlone ==
    \E id \in DOMAIN downloads :
        /\ event = Settled("resumeDownload", id, NULL)
        /\ downloads[id].download_status = COMPLETED
        /\ ~IsAttached(id)
        /\ \A h \in Hs : handles[h].downloadId # id

\* cancelAndDeleteDownload(id) is called in this step
CancelCalled(id) ==
    /\ calls' < calls
    /\ \E t \in BagToSet(tasks') :
          /\ t.op = "cancelAndDeleteDownload" /\ t.id = id
          /\ CopiesIn(t, tasks') > CopiesIn(t, tasks)

C18_RecordRemovedDespiteFileError ==
    [][\A t \in Suspended :
         (t.pc = "file_deleted" /\ t.res = Threw /\ Continues(t))
         => /\ t.id \notin DOMAIN downloads'
            /\ t.op = "cancelAndDeleteDownload"
               => event' = Settled("cancelAndDeleteDownload", t.id, NULL)]_vars

\* the only call made, cancelAndDeleteDownload(1), has returned: the record is
\* removed and its backing file, whose deletion threw, is still there
C18_FileLeftRecordGone ==
    /\ event = Settled("cancelAndDeleteDownload", 1, NULL)
    /\ nextId = 2
    /\ 1 \notin DOMAIN downloads
    /\ calls = MaxDeleteCalls - 1
    /\ 1 \in files

C20_FreshProcessDetached ==
    /\ []((appState # "ready" \/ event.op = "initialize")
          => /\ getActiveDownloadsCount = 0
             /\ \A id \in Ids \cup {NoSuchId} : ~isDownloadActive(id)
             /\ handles = <<>>)
    /\ [][appState # "ready" => UNCHANGED <<activeDownloads, handles, files>>]_vars

\* initialize() has returned after it paused a download that an earlier
\* process left downloading, and nothing is attached
C20_SweptNothingAttached ==
    /\ event = Settled("initialize", 0, NULL)
    /\ getActiveDownloadsCount = 0
    /\ \E id \in DOMAIN downloads :
          /\ downloads[id].download_status = PAUSED
          /\ downloads[id].resume_data = PauseState(-1)
          /\ ~isDownloadActive(id)

\* C21: in every reachable state at most MAX_CONCURRENT_DOWNLOADS (3)
\* downloads of the map have a transfer that runs.
C21_ConcurrentLimit ==
    Cardinality({id \in DOMAIN activeDownloads :
                   handles[activeDownloads[id]].pc = "running"})
      <= MAX_CONCURRENT_DOWNLOADS

\* C22: in every reachable state a row whose resume_data is not null is paused
\* or downloading; a pending, completed or failed row has none.
C22_CheckpointOnlyWhilePausedOrDownloading ==
    \A i \in DOMAIN downloads :
        downloads[i].resume_data # NoResume
        => downloads[i].download_status \in {PAUSED, DOWNLOADING}

\* C23: no step lowers the downloaded_bytes of a row that is downloading, and
\* no step changes the downloaded_bytes of a row in any other status.
C23_BytesMonotone ==
    [][\A i \in DOMAIN downloads \cap DOMAIN downloads' :
         IF downloads[i].download_status = DOWNLOADING
         THEN downloads'[i].downloaded_bytes >= downloads[i].downloaded_bytes
         ELSE downloads'[i].downloaded_bytes = downloads[i].downloaded_bytes]_vars

\* C24: no two rows of the downloads table share local_file_path, the row that
\* replaces a deleted failed one and the rows of different media whose sanitized
\* titles coincide and that are named at the same millisecond included.
C24_PathsDistinct ==
    \A i, j \in DOMAIN downloads :
        downloads[i].local_file_path = downloads[j].local_file_path => i = j

\* C27: the sanitized name inside every generated file name holds only
\* characters of [a-z0-9.-_], has no run of two or more underscores, neither
\* begins nor ends with an underscore and is at most 100 characters long, and
\* the file name ends with ".mp4".
C27_SanitizedNames ==
    \A i \in DOMAIN downloads :
        LET path == downloads[i].local_file_path
            n == Len(path) - 6
            name == SubSeq(path, 1, n)
        IN /\ \A k \in 1..n :
                name[k] \in {"a", "b", "c", "d", "e", "f", "g", "h", "i", "j", "k", "l",
                             "m", "n", "o", "p", "q", "r", "s", "t", "u", "v", "w", "x",
                             "y", "z", "0", "1", "2", "3", "4", "5", "6", "7", "8", "9",
                             ".", "-", "_"}
           /\ \A k \in 1..(n - 1) : ~(name[k] = "_" /\ name[k + 1] = "_")
           /\ n > 0 => name[1] # "_" /\ name[n] # "_"
           /\ n <= MaxNameLength
           /\ SubSeq(path, n + 3, n + 6) = <<".", "m", "p", "4">>

\* C25: running initializeDatabase on a file that has the downloads table, the
\* file at the current version and the file where a column was added but the
\* version row not bumped included, never raises, leaves every column of every
\* existing row as it was, returns with the current columns and one version
\* row holding 3, and changes nothing in a file that was already there.
C25_MigrationIdempotent ==
    [][/\ \A i \in DOMAIN downloads :
            /\ i \in DOMAIN downloads'
            /\ \A c \in DOMAIN downloads[i] : downloads'[i][c] = downloads[i][c]
       /\ "downloads" \in database.tables =>
            /\ event'.err = NULL
            /\ event'.op = "initializeDatabase" =>
                 /\ database'.columns = CurrentColumns
                 /\ database'.db_version = <<CURRENT_DB_VERSION>>
       /\ (/\ database.tables = Migrated.tables
           /\ database.columns = CurrentColumns
           /\ database.db_version = <<CURRENT_DB_VERSION>>) =>
            /\ database'.tables = database.tables
            /\ database'.columns = database.columns
            /\ database'.db_version = database.db_version
            /\ downloads' = downloads]_vars

\* the migration of a table with a row finds resume_data already added while
\* the version row still says 2: ALTER TABLE raised, and the step is skipped
C25_ColumnAlreadyAdded ==
    /\ downloads # <<>>
    /\ \E t \in Suspended :
          /\ t.op = "initializeDatabase" /\ t.pc = "altered"
          /\ t.err = DuplicateColumn
          /\ t.currentVersion = CURRENT_DB_VERSION - 1

\* C26: when downloadAsync rejects with retries left, the download is retried
\* exactly when the message contains, in whatever case, one of timeout, network,
\* ECONNRESET, ECONNREFUSED and socket hang up; 'File not found', 'Permission
\* denied', 'Invalid format' and every other message are not retried.
C26_RetryClassification ==
    [][\A h \in Hs : \A msg \in TransientErrors \cup PermanentErrors \cup TransferErrors :
          (Rejected(h, msg) /\ handles[h].retryCount < MAX_RETRY_ATTEMPTS) =>
              (handles'[h].pc = "timer" <=> msg \in TransientErrors)]_vars

\* a rejection whose message matches a signature only when case is ignored is
\* waiting for its retry
C26_MixedCaseRetried ==
    \E h \in Hs :
        /\ handles[h].pc = "timer"
        /\ event = Settled("downloadAsync", handles[h].downloadId, "Socket Hang Up")

\* C28: ensureDirectoryExists makes the directory when getInfoAsync reports it
\* absent and issues no makeDirectoryAsync when it reports it present; however
\* many calls run and overlap, no call raises, no directory disappears, and
\* the directory is there when a call returns.
C28_DirectoryIdempotent ==
    [][/\ event'.err = NULL
       /\ files \subseteq files'
       /\ \A t \in Suspended :
            (t.op = "ensureDirectoryExists" /\ Continues(t)) =>
                /\ (t.pc = "info" /\ t.dirInfo.exists) =>
                       /\ event' = Settled("ensureDirectoryExists", 0, NULL)
                       /\ disk' = disk
                /\ (t.pc = "info" /\ ~t.dirInfo.exists) => getInfo(t.name)'.exists
                /\ event'.op = "ensureDirectoryExists" => getInfo(t.name)'.exists]_vars

\* two overlapped calls both saw the directory absent and both issued
\* makeDirectoryAsync
C28_OverlappedCreation ==
    \E t \in Suspended :
        /\ t.op = "ensureDirectoryExists" /\ t.pc = "made" /\ t.err = NULL
        /\ CopiesIn(t, tasks) = 2

\* C29: a step of the success path of executeDownload (final progress, cleared
\* checkpoint, status completed) that runs when pauseDownload or
\* cancelAndDeleteDownload has detached its download writes nothing to the
\* downloads table.
C29_StaleCompletionNoOp ==
    [][\A h \in Hs :
          (/\ handles[h].pc \in {"info", "stamped", "cleared"}
           /\ ~IsAttached(handles[h].downloadId)
           /\ (h \in DOMAIN handles' => handles'[h].pc # handles[h].pc)) =>
              downloads' = downloads]_vars

\* C30: when pauseAsync has cancelled the transfer of an attached download, the
\* error handler of its executeDownload writes nothing to the downloads table,
\* whether it runs before or after the continuation of the pauseDownload call.
C30_PauseNeverRecordedAsFailure ==
    [][\A h \in Hs :
          (/\ handles[h].pc = "cancelled"
           /\ (h \in DOMAIN handles' => handles'[h].pc # "cancelled")) =>
              downloads' = downloads]_vars

\* C31: a row whose status is completed keeps its status, downloaded_bytes and
\* resume_data in every step that does not delete it; a pauseDownload that
\* arrives after the completion turns it neither paused nor failed.
C31_CompletedTerminal ==
    [][\A i \in DOMAIN downloads \cap DOMAIN downloads' :
          downloads[i].download_status = COMPLETED =>
              /\ downloads'[i].download_status = COMPLETED
              /\ downloads'[i].downloaded_bytes = downloads[i].downloaded_bytes
              /\ downloads'[i].resume_data = downloads[i].resume_data]_vars

\* C32: when a pauseDownload(id) whose pauseAsync returned a checkpoint returns,
\* id is not in activeDownloads and the row of id, if it is still there, is
\* paused with that checkpoint as its resume_data.
C32_PauseStoresCheckpoint ==
    [][\A t \in Suspended :
          (t.op = "pauseDownload" /\ t.pc = "saved" /\ Continues(t)) =>
              /\ t.id \notin DOMAIN activeDownloads'
              /\ t.id \in DOMAIN downloads' =>
                    /\ downloads'[t.id].download_status = PAUSED
                    /\ downloads'[t.id].resume_data = t.res]_vars

\* C33: when downloadAsync of an attached transfer rejects with a message that
\* matches no retryable signature and is no connection loss, the catch block
\* writes the row failed with that very message and schedules no timer; its
\* next statement removes the download from activeDownloads and ends the loop.
C33_PermanentErrorFails ==
    /\ [][\A h \in Hs, msg \in PermanentErrors :
            LET id == handles[h].downloadId
            IN Rejected(h, msg) =>
                 /\ handles'[h].pc = "detach"
                 /\ handles'[h].retryCount = handles[h].retryCount
                 /\ id \in DOMAIN downloads =>
                       /\ downloads'[id].download_status = FAILED
                       /\ downloads'[id].error_message = msg]_vars
    /\ [][\A h \in Hs :
            (/\ handles[h].pc = "detach"
             /\ (h \in DOMAIN handles' => handles'[h].pc # "detach")) =>
                 /\ h \notin DOMAIN handles'
                 /\ handles[h].downloadId \notin DOMAIN activeDownloads'
                 /\ downloads' = downloads]_vars

\* a permission failure has been written to the row of a transfer that is about
\* to be detached
C33_PermissionFailureRecorded ==
    \E h \in Hs :
        LET id == handles[h].downloadId
        IN /\ handles[h].pc = "detach"
           /\ event = Settled("downloadAsync", id, PermissionDenied)
           /\ id \in DOMAIN downloads
           /\ downloads[id].download_status = FAILED
           /\ downloads[id].error_message = PermissionDenied

\* C34: an automatic retry leaves the row paused with the 'Retrying after error'
\* message and the download attached; the timer that then fires starts a
\* transfer only when the download is attached, and when pauseDownload or
\* cancelAndDeleteDownload has just returned for the download it starts no
\* transfer and writes nothing to the downloads table.
C34_BackoffRespectsPause ==
    /\ [][\A h \in Hs, msg \in TransientErrors :
            LET id == handles[h].downloadId
            IN (/\ Rejected(h, msg)
                /\ handles[h].retryCount < MAX_RETRY_ATTEMPTS
                /\ id \in DOMAIN downloads)
               => /\ handles'[h].pc = "timer"
                  /\ id \in DOMAIN activeDownloads'
                  /\ downloads'[id].download_status = PAUSED
                  /\ downloads'[id].error_message = Retrying(msg)]_vars
    /\ [][\A h \in Hs :
            LET id == handles[h].downloadId
            IN (/\ handles[h].pc = "timer"
                /\ (h \in DOMAIN handles' => handles'[h].pc # "timer")
                /\ \/ ~IsAttached(id)
                   \/ event \in {Settled("pauseDownload", id, NULL),
                                 Settled("cancelAndDeleteDownload", id, NULL)})
               => /\ h \notin DOMAIN handles'
                  /\ downloads' = downloads
                  /\ files' = files]_vars

\* ---- the event loop left to itself ---------------------------------------------------
\* every continuation that is ready to run is run and every transfer eventually
\* settles; the calls of the application are under no obligation
SpecLive ==
    /\ Init
    /\ [][Next]_vars
    /\ WF_vars(\E t \in Suspended : Service(t))
    /\ WF_vars(\E h \in Hs : Transfer(h))

\* download id rests: it is not attached, none of its runs waits for a retry
\* timer, and its row, if there is one, is completed, paused or failed
Resting(id) ==
    /\ ~IsAttached(id)
    /\ \A h \in Hs : handles[h].downloadId = id => handles[h].pc # "timer"
    /\ id \in DOMAIN downloads =>
          downloads[id].download_status \in {COMPLETED, PAUSED, FAILED}

\* C35: under weak fairness of the continuations and of the transfers, every
\* download that startDownload or resumeDownload has attached eventually
\* rests: detached, no retry timer pending, its row completed, paused or failed.
C35_AttachedEventuallyRests ==
    \A id \in 1..(MaxCalls + 2) : IsAttached(id) ~> Resting(id)

\* ---- the writes of the Store and the clock -------------------------------------------
\* the main specification with milliseconds passing between the steps
NextClock ==
    \/ Next
    \/ Tick

SpecClock == Init /\ [][NextClock]_vars

\* C36: every step that changes a row of the downloads table (its status and
\* error message, its progress, its thumbnail path or its checkpoint) leaves
\* the row's updated_at at the time of the step.
C36_WritesStampUpdatedAt ==
    [][\A i \in DOMAIN downloads \cap DOMAIN downloads' :
          downloads'[i] # downloads[i] => downloads'[i].updated_at = now]_vars

\* C37: a step of the reconciliation routine adds and removes no row and no
\* file, leaves every row that is paused, completed or failed as it is, and
\* changes of a downloading or pending row nothing but download_status,
\* error_message and updated_at: downloaded_bytes, file_size, resume_data,
\* local_file_path, the media keys and the thumbnail path stay.
C37_ReconciliationFrame ==
    [][appState = "sweeping" =>
          /\ DOMAIN downloads' = DOMAIN downloads
          /\ files' = files
          /\ \A i \in DOMAIN downloads :
                /\ downloads[i].download_status \in {PAUSED, COMPLETED, FAILED} =>
                      downloads'[i] = downloads[i]
                /\ downloads'[i] = [downloads[i] EXCEPT
                                      !.download_status = downloads'[i].download_status,
                                      !.error_message = downloads'[i].error_message,
                                      !.updated_at = downloads'[i].updated_at]]_vars

\* the sweep has marked failed a row whose server is gone, and the row still
\* has its progress, its checkpoint and its file
C37_SweptRowKeepsProgress ==
    /\ appState = "sweeping"
    /\ sweep = <<>>
    /\ \E i \in DOMAIN downloads :
          /\ downloads[i].download_status = FAILED
          /\ downloads[i].error_message = ServerGone
          /\ downloads[i].downloaded_bytes = 1
          /\ downloads[i].resume_data = PauseState(-1)
          /\ downloads[i].local_file_path \in files

\* C38: no step writes a file that is left without a row: a file that appears
\* in a step is the local_file_path of a row of the table, and of no row whose
\* deleteDownload has already removed the file and is about to remove the row;
\* so once cancelAndDeleteDownload has deleted a download, no transfer of it
\* that was attached but not yet started brings its file back.
C38_NoFileWithoutRow ==
    [][\A p \in files' \ files :
          /\ \E i \in DOMAIN downloads' : downloads'[i].local_file_path = p
          /\ \A t \in Suspended :
                ~(/\ t.pc \in {"thumbnail", "file_deleted"}
                  /\ t.res # Threw
                  /\ t.row.exists
                  /\ t.row.local_file_path = p)]_vars

\* ---- a start of the app whose sweep can fail ----------------------------------------
NextInit ==
    \/ Next
    \/ InitializeFails
    \/ RetryInitializeApp

SpecInit == Init /\ [][NextInit]_vars

\* C39: whenever initialize() has returned without an error, the first call of
\* the process or one made by the Retry button after a sweep that threw, every
\* row without an attached transfer is neither downloading nor pending.
C39_InitializeLeavesNoneInterrupted ==
    event = Settled("initialize", 0, NULL) =>
        \A i \in DOMAIN downloads :
            ~IsAttached(i) => downloads[i].download_status \notin {DOWNLOADING, PENDING}

\* C40: whenever initializeDatabase has returned without an error, on a new
\* file, on a file of an earlier schema version or on the call that follows a
\* rejected one, the downloads, servers and app_state tables exist, downloads
\* has every current column and the db_version row holds CURRENT_DB_VERSION.
C40_DatabaseReady ==
    event = Settled("initializeDatabase", 0, NULL) =>
        /\ {"downloads", "servers", "app_state"} \subseteq database.tables
        /\ CurrentColumns \subseteq database.columns
        /\ database.db_version = <<CURRENT_DB_VERSION>>

====
